---- MODULE Spec2Model ----
(***************************************************************************)
(* Capture pipeline of heronote (macOS, debug build).                      *)
(*                                                                         *)
(* Part 1: the capture lifecycle coordinator: the start/stop/is_capturing  *)
(* commands of commands.rs acting on the atomic flags of AudioState, and   *)
(* the capture thread (microphone) or task (speaker) each accepted start   *)
(* spawns.  Commands and capture threads run concurrently; every access to *)
(* an atomic flag is one step.                                             *)
(*                                                                         *)
(* Part 2: the speaker stream of speaker.rs: the IO-proc callback pushing  *)
(* into the ring buffer and notifying through the wake cell, against the   *)
(* consumer's poll_next.                                                   *)
(***************************************************************************)
EXTENDS Naturals, Integers, Sequences, FiniteSets, TLC

VARIABLES
    running,      \* AudioState.mic_running / speaker_running
    stop_signal,  \* AudioState.mic_stop_signal / speaker_stop_signal
    calls,        \* commands in progress: how many are at each position
    thr,          \* capture threads/tasks: how many are at each position
    ev,           \* what the last step returned to its caller, if anything
    device,       \* started devices (cpal stream playing, aggregate device started)
    platform,     \* the target_os the application is built for
    rb,           \* the ring buffer's contents, oldest sample first
    has_data,     \* WakerState.has_data
    waker,        \* WakerState.waker: "none" or the consumer task's waker
    p_pc,         \* where the IO-proc callback is in process_audio_data
    c_pc,         \* where the consumer is in (or after) poll_next
    delivered,    \* samples the device has handed to the callback so far
    notified,     \* wake() was called on the task's waker since it last polled
    run_wakes,    \* wakes issued by the callbacks that pushed since the last poll step
    run_pushes,   \* callbacks since the last poll step that pushed samples
    in_run,       \* a callback has pushed since the last poll step
    cb,           \* the IO-proc invocation in progress, or the last one
    polled,       \* what the last poll_next returned
    current_sample_rate,  \* AudioContext / SpeakerStream.current_sample_rate
    format_rate,  \* ctx.format's sample rate, fixed when the stream is opened
    hist,         \* the samples push_slice accepted and the chunks poll_next yielded, in order
    conv,         \* the last sample converted: its format, its value, the f32
    sess,         \* one capture thread of the microphone, followed through its loop
    lock,         \* who holds the mutex of the speaker's wake cell
    released,     \* the parts of a SpeakerStream dropped so far, in order
    mic           \* the microphone's channel between its callback and MicStream

lifecycle_vars == <<running, stop_signal, calls, thr, ev, device, platform>>

stream_vars ==
    <<rb, has_data, waker, p_pc, c_pc, delivered, notified, run_wakes, run_pushes, in_run,
      cb, polled, current_sample_rate, format_rate, hist>>

handoff_vars == <<lock, released, mic>>

vars ==
    <<running, stop_signal, calls, thr, ev, device, platform,
      rb, has_data, waker, p_pc, c_pc, delivered, notified, run_wakes, run_pushes, in_run,
      cb, polled, current_sample_rate, format_rate, hist,
      conv, sess, lock, released, mic>>

(***************************************************************************)
(* Bounds of the model.                                                    *)
(***************************************************************************)
\* Commands that may be in progress at once: those between two of their
\* steps, and the one that is taking its only step.
MaxCalls == 2
\* Capture sessions in progress at once: accepted starts that have not yet
\* spawned, plus capture threads that have not yet ended.
MaxSessions == 2

\* The speaker stream at model scale: SAMPLES_PER_CHUNK samples per read and
\* a ring buffer of SAMPLES_PER_CHUNK * BUFFER_CAPACITY_MULTIPLIER samples.
SamplesPerChunk == 2
CapacityMultiplier == 2
\* Longest slice one callback delivers, and samples delivered in a session.
MaxSlice == 3

\* The sample formats at model scale: significant bits of f32 (24 in the
\* code), bits of i16 and of i32.
MantissaBits == 4
I16Bits == 4
I32Bits == 7

Sources == {"mic", "speaker"}

(***************************************************************************)
(* Values                                                                  *)
(***************************************************************************)
NoError == [variant |-> "none", detail |-> ""]

\* The AudioError values the pre-flight acquisition can return.
AcquireErrors(s) ==
    IF s = "mic"
    THEN { [variant |-> "NoDeviceFound", detail |-> ""],
           [variant |-> "DeviceError", detail |-> "no input config"] }
    ELSE { [variant |-> "StreamBuildError", detail |-> "Failed to create process tap: err"],
           [variant |-> "DeviceError", detail |-> "Failed to get tap UID: err"] }

\* thiserror's Display of AudioError (the #[error(...)] attributes).
ErrorDisplay(e) ==
    CASE e.variant = "NoDeviceFound" -> "No audio device found"
      [] e.variant = "DeviceNotAvailable" -> "Device not available: " \o e.detail
      [] e.variant = "StreamBuildError" -> "Failed to build audio stream: " \o e.detail
      [] e.variant = "StreamError" -> "Stream error: " \o e.detail
      [] e.variant = "DeviceError" -> "Device error: " \o e.detail
      [] e.variant = "UnsupportedFormat" -> "Unsupported sample format"
      [] e.variant = "PermissionDenied" -> "Permission denied for audio capture"
      [] e.variant = "PlatformNotSupported" -> "Platform not supported: " \o e.detail
      [] OTHER -> ""

\* A mapping that wrapped the message, for contrast.
MapErrWrapped(e) == "Failed to start capture: " \o ErrorDisplay(e)

\* .map_err(|e| e.to_string()) of the start commands.
MapErrToString(e) == ErrorDisplay(e)

AlreadyRunningMsg(s) ==
    IF s = "mic" THEN "Microphone capture is already running"
                 ELSE "Speaker capture is already running"

NotRunningMsg(s) ==
    IF s = "mic" THEN "Microphone capture is not running"
                 ELSE "Speaker capture is not running"

NoEvent == [op |-> "none", src |-> "none", ret |-> "", err |-> NoError]
Return(op, s, ret) == [op |-> op, src |-> s, ret |-> ret, err |-> NoError]
ReturnErr(op, s, e, msg) == [op |-> op, src |-> s, ret |-> msg, err |-> e]

\* A step of the lifecycle that starts and stops no device: what it returns;
\* the speaker stream is untouched.
Event(e) == ev' = e /\ UNCHANGED <<device, platform>> /\ UNCHANGED <<stream_vars, conv, sess, handoff_vars>>

(***************************************************************************)
(* Positions                                                               *)
(***************************************************************************)
\* A start that passed its checks is about to set running ("set"), to reset
\* the stop signal ("reset"), to spawn ("spawn") or, the thread spawned, to
\* return Ok ("return"); a stop that passed its check is about to store the
\* stop signal ("signal").
CallPcs == {"set", "reset", "spawn", "return", "signal"}
CallKinds == CallPcs \X Sources

\* A capture thread is setting up ("setup": the microphone thread builds its
\* tokio runtime, then either thread creates its input and opens the stream;
\* these steps touch nothing shared, so they are one position whose outcome
\* is chosen when the thread leaves it), at the top of the loop ("loop"),
\* in the select ("select"), past the loop ("finalize"), or past the store
\* of running with the stream still alive ("drop").
ThreadPcs == {"setup", "loop", "select", "finalize", "drop"}
ThreadKinds == ThreadPcs \X Sources

CallsAt(pc) == calls[<<pc, "mic">>] + calls[<<pc, "speaker">>]
ThreadsAt(pc) == thr[<<pc, "mic">>] + thr[<<pc, "speaker">>]

StartsInFlight == CallsAt("set") + CallsAt("reset") + CallsAt("spawn")
CallsInFlight == StartsInFlight + CallsAt("return") + CallsAt("signal")
ThreadsAlive ==
    ThreadsAt("setup") + ThreadsAt("loop") + ThreadsAt("select")
        + ThreadsAt("finalize") + ThreadsAt("drop")
SessionsInProgress == StartsInFlight + ThreadsAlive

Inc(f, k) == [f EXCEPT ![k] = @ + 1]
Dec(f, k) == [f EXCEPT ![k] = @ - 1]
Move(f, a, b) == Inc(Dec(f, a), b)

(***************************************************************************)
(* AudioState                                                              *)
(***************************************************************************)
is_running(s) == running[s]
set_running(s, b) == running' = [running EXCEPT ![s] = b]
\* A stop signal shared by the sources, for contrast.
signal_stop_shared(s) == stop_signal' = [o \in Sources |-> TRUE]
signal_stop(s) == stop_signal' = [stop_signal EXCEPT ![s] = TRUE]
reset_stop_signal(s) == stop_signal' = [stop_signal EXCEPT ![s] = FALSE]

\* No capture thread is being followed.
NoSession ==
    [pc |-> "none", save |-> FALSE, writer |-> FALSE, chunk |-> <<>>, wrote |-> <<>>,
     failed |-> FALSE, stopped |-> FALSE, after_stop |-> 0]

\* No stream is open: the mutex of the wake cell is free, no part of a stream
\* has been dropped, no channel exists.
NoChannel ==
    [queue |-> <<>>, sent |-> <<>>, yielded |-> <<>>, tx |-> FALSE, rx |-> FALSE,
     made |-> 0, polled |-> "none", channels |-> 1]
HandOffInit ==
    /\ lock = "free"
    /\ released = <<>>
    /\ mic = NoChannel

LifecycleInit ==
    /\ running = [s \in Sources |-> FALSE]
    /\ stop_signal = [s \in Sources |-> FALSE]
    /\ calls = [k \in CallKinds |-> 0]
    /\ thr = [k \in ThreadKinds |-> 0]
    /\ ev = NoEvent
    /\ device = [s \in Sources |-> 0]
    /\ platform = "macos"
    /\ sess = NoSession
    /\ HandOffInit

(***************************************************************************)
(* start_mic_capture / start_speaker_capture                               *)
(***************************************************************************)
\* A rejected start that reset the stop signal all the same, for contrast.
StartAlreadyRunningResets(s) ==
    /\ is_running(s)
    /\ CallsInFlight < MaxCalls
    /\ reset_stop_signal(s)
    /\ Event(Return("start", s, AlreadyRunningMsg(s)))
    /\ UNCHANGED <<running, calls, thr>>

\* `if audio_state.is_*_running() { return Err(..already running..) }`
StartAlreadyRunning(s) ==
    /\ is_running(s)
    /\ CallsInFlight < MaxCalls
    /\ Event(Return("start", s, AlreadyRunningMsg(s)))
    /\ UNCHANGED <<running, stop_signal, calls, thr>>

\* A start that marked the source running before acquiring it, for contrast.
StartAcquireFailedMarksRunning(s) ==
    /\ ~is_running(s)
    /\ CallsInFlight < MaxCalls
    /\ \E e \in AcquireErrors(s) : Event(ReturnErr("start", s, e, MapErrToString(e)))
    /\ set_running(s, TRUE)
    /\ UNCHANGED <<stop_signal, calls, thr>>

\* The check passed and `MicInput::new()` / `SpeakerInput::new()` failed:
\* `.map_err(|e| e.to_string())?` returns the message.
StartAcquireFailed(s) ==
    /\ ~is_running(s)
    /\ CallsInFlight < MaxCalls
    /\ \E e \in AcquireErrors(s) : Event(ReturnErr("start", s, e, MapErrToString(e)))
    /\ UNCHANGED <<running, stop_signal, calls, thr>>

\* The check passed and the pre-flight acquisition succeeded.
StartAcquired(s) ==
    /\ ~is_running(s)
    /\ CallsInFlight < MaxCalls
    /\ SessionsInProgress < MaxSessions
    /\ calls' = Inc(calls, <<"set", s>>)
    /\ Event(NoEvent)
    /\ UNCHANGED <<running, stop_signal, thr>>

\* `audio_state.set_*_running(true);`
StartSetRunning(s) ==
    /\ calls[<<"set", s>>] > 0
    /\ set_running(s, TRUE)
    /\ calls' = Move(calls, <<"set", s>>, <<"reset", s>>)
    /\ Event(NoEvent)
    /\ UNCHANGED <<stop_signal, thr>>

\* A start that left the stop signal as it found it, for contrast.
StartKeepsStop(s) ==
    /\ calls[<<"reset", s>>] > 0
    /\ calls' = Move(calls, <<"reset", s>>, <<"spawn", s>>)
    /\ Event(NoEvent)
    /\ UNCHANGED <<running, stop_signal, thr>>

\* `audio_state.reset_*_stop_signal();`
StartResetStop(s) ==
    /\ calls[<<"reset", s>>] > 0
    /\ reset_stop_signal(s)
    /\ calls' = Move(calls, <<"reset", s>>, <<"spawn", s>>)
    /\ Event(NoEvent)
    /\ UNCHANGED <<running, thr>>

\* `thread::spawn(..)` / `tauri::async_runtime::spawn(..)`: the new thread
\* runs from here on, concurrently with the rest of the command.
StartSpawn(s) ==
    /\ calls[<<"spawn", s>>] > 0
    /\ calls' = Move(calls, <<"spawn", s>>, <<"return", s>>)
    /\ thr' = Inc(thr, <<"setup", s>>)
    /\ Event(NoEvent)
    /\ UNCHANGED <<running, stop_signal>>

\* `Ok(())`
StartReturn(s) ==
    /\ calls[<<"return", s>>] > 0
    /\ calls' = Dec(calls, <<"return", s>>)
    /\ Event(Return("start", s, "Ok"))
    /\ UNCHANGED <<running, stop_signal, thr>>

(***************************************************************************)
(* stop_mic_capture / stop_speaker_capture                                 *)
(***************************************************************************)
\* A rejected stop that raised the stop signal all the same, for contrast.
StopNotRunningSignals(s) ==
    /\ ~is_running(s)
    /\ CallsInFlight < MaxCalls
    /\ signal_stop(s)
    /\ Event(Return("stop", s, NotRunningMsg(s)))
    /\ UNCHANGED <<running, calls, thr>>

\* `if !state.is_*_running() { return Err(..not running..) }`
StopNotRunning(s) ==
    /\ ~is_running(s)
    /\ CallsInFlight < MaxCalls
    /\ Event(Return("stop", s, NotRunningMsg(s)))
    /\ UNCHANGED <<running, stop_signal, calls, thr>>

StopCheckPassed(s) ==
    /\ is_running(s)
    /\ CallsInFlight < MaxCalls
    /\ calls' = Inc(calls, <<"signal", s>>)
    /\ Event(NoEvent)
    /\ UNCHANGED <<running, stop_signal, thr>>

\* A stop that cleared the running flag itself, for contrast.
StopSignalClearsRunning(s) ==
    /\ calls[<<"signal", s>>] > 0
    /\ signal_stop(s)
    /\ set_running(s, FALSE)
    /\ calls' = Dec(calls, <<"signal", s>>)
    /\ Event(Return("stop", s, "Ok"))
    /\ UNCHANGED thr

\* A stop that stopped the device itself, for contrast.
StopSignalStopsDevice(s) ==
    /\ calls[<<"signal", s>>] > 0
    /\ signal_stop(s)
    /\ calls' = Dec(calls, <<"signal", s>>)
    /\ ev' = Return("stop", s, "Ok")
    /\ device' = [device EXCEPT ![s] = 0]
    /\ UNCHANGED <<running, thr, platform>>
    /\ UNCHANGED <<stream_vars, conv, sess, handoff_vars>>

\* `state.signal_*_stop(); Ok(())`
StopSignal(s) ==
    /\ calls[<<"signal", s>>] > 0
    /\ signal_stop(s)
    /\ calls' = Dec(calls, <<"signal", s>>)
    /\ Event(Return("stop", s, "Ok"))
    /\ UNCHANGED <<running, thr>>

(***************************************************************************)
(* is_mic_capturing / is_speaker_capturing                                 *)
(***************************************************************************)
IsCapturing(s) ==
    /\ CallsInFlight < MaxCalls
    /\ Event(Return("is_capturing", s, IF is_running(s) THEN "true" ELSE "false"))
    /\ UNCHANGED <<running, stop_signal, calls, thr>>

(***************************************************************************)
(* The capture thread (microphone) / task (speaker)                        *)
(***************************************************************************)
ThreadAt(pc, s) == thr[<<pc, s>>] > 0

\* A failure before the loop: log, `running.store(false)`, return.
ThreadFail(pc, s) ==
    /\ ThreadAt(pc, s)
    /\ thr' = Dec(thr, <<pc, s>>)
    /\ set_running(s, FALSE)
    /\ Event(NoEvent)
    /\ UNCHANGED <<stop_signal, calls>>

ThreadAdvance(from, to, s) ==
    /\ ThreadAt(from, s)
    /\ thr' = Move(thr, <<from, s>>, <<to, s>>)
    /\ Event(NoEvent)
    /\ UNCHANGED <<running, stop_signal, calls>>

\* `tokio::runtime::Builder::new_current_thread().enable_all().build()`
\* fails (microphone thread only).
ThreadRuntimeFailed(s) == s = "mic" /\ ThreadFail("setup", s)

\* `MicInput::new()` / `SpeakerInput::new()` fails on the thread.
ThreadInputFailed(s) == ThreadFail("setup", s)

\* A failure path that forgot the store, for contrast.
ThreadStreamFailedSilently(s) ==
    /\ ThreadAt("setup", s)
    /\ thr' = Dec(thr, <<"setup", s>>)
    /\ Event(NoEvent)
    /\ UNCHANGED <<running, stop_signal, calls>>

\* `mic.stream()` / `speaker.stream()` fails.
ThreadStreamFailed(s) == ThreadFail("setup", s)

\* The stream is open: from here the thread owns it.
ThreadStreamStarted(s) ==
    /\ ThreadAt("setup", s)
    /\ thr' = Move(thr, <<"setup", s>>, <<"loop", s>>)
    /\ device' = [device EXCEPT ![s] = @ + 1]
    /\ ev' = NoEvent
    /\ UNCHANGED <<running, stop_signal, calls, platform>>
    /\ UNCHANGED <<stream_vars, conv, sess, handoff_vars>>

\* A check that consumed the stop request it observed, for contrast.
ThreadCheckStopConsumes(s) ==
    IF stop_signal[s]
    THEN /\ ThreadAt("loop", s)
         /\ thr' = Move(thr, <<"loop", s>>, <<"finalize", s>>)
         /\ reset_stop_signal(s)
         /\ Event(NoEvent)
         /\ UNCHANGED <<running, calls>>
    ELSE ThreadAdvance("loop", "select", s)

\* `if stop_signal.load(SeqCst) { break; }`
ThreadCheckStop(s) ==
    IF stop_signal[s]
    THEN ThreadAdvance("loop", "finalize", s)
    ELSE ThreadAdvance("loop", "select", s)

\* What `stream.next()` can yield within the 100 ms of the select: a chunk,
\* nothing (the sleep branch wins), or the end of the stream (the microphone
\* channel closed; SpeakerStream::poll_next never returns Ready(None)).
StreamOutcomes(s) ==
    IF s = "mic" THEN {"chunk", "timeout", "end"} ELSE {"chunk", "timeout"}

\* `tokio::select! { biased; audio = stream.next() => .., _ = sleep(100ms) => {} }`
ThreadSelect(s) ==
    \E o \in StreamOutcomes(s) :
        IF o = "end"
        THEN ThreadAdvance("select", "finalize", s)
        ELSE ThreadAdvance("select", "loop", s)

\* A thread that released its stream before storing, for contrast.
ThreadStoreStoppedAfterDrop(s) ==
    /\ ThreadAt("finalize", s)
    /\ thr' = Dec(thr, <<"finalize", s>>)
    /\ set_running(s, FALSE)
    /\ Event(NoEvent)
    /\ UNCHANGED <<stop_signal, calls>>

\* After the loop: finalize the WAV file, then `running.store(false)`.
ThreadStoreStopped(s) ==
    /\ ThreadAt("finalize", s)
    /\ thr' = Move(thr, <<"finalize", s>>, <<"drop", s>>)
    /\ set_running(s, FALSE)
    /\ Event(NoEvent)
    /\ UNCHANGED <<stop_signal, calls>>

\* The end of the async block: the pinned stream is dropped, the thread ends.
\* Dropping the stream drops the cpal Stream / the StartedDevice it owns.
ThreadDropStream(s) ==
    /\ ThreadAt("drop", s)
    /\ thr' = Dec(thr, <<"drop", s>>)
    /\ device' = [device EXCEPT ![s] = @ - 1]
    /\ ev' = NoEvent
    /\ UNCHANGED <<running, stop_signal, calls, platform>>
    /\ UNCHANGED <<stream_vars, conv, sess, handoff_vars>>

CommandStep(s) ==
    \/ StartAlreadyRunning(s)
    \/ StartAcquireFailed(s)
    \/ StartAcquired(s)
    \/ StartSetRunning(s)
    \/ StartResetStop(s)
    \/ StartSpawn(s)
    \/ StartReturn(s)
    \/ StopNotRunning(s)
    \/ StopCheckPassed(s)
    \/ StopSignal(s)
    \/ IsCapturing(s)

ThreadStep(s) ==
    \/ ThreadRuntimeFailed(s)
    \/ ThreadInputFailed(s)
    \/ ThreadStreamFailed(s)
    \/ ThreadStreamStarted(s)
    \/ ThreadCheckStop(s)
    \/ ThreadSelect(s)
    \/ ThreadStoreStopped(s)
    \/ ThreadDropStream(s)

(***************************************************************************)
(* The platforms: macOS, and the stub crates audio-linux / audio-windows   *)
(***************************************************************************)
StubPlatforms == {"linux", "windows"}
Platforms == {"macos"} \cup StubPlatforms

PlatformName(p) == IF p = "linux" THEN "Linux" ELSE "Windows"

PlatformNotSupported(detail) == [variant |-> "PlatformNotSupported", detail |-> detail]

\* A stub whose `new()` succeeded, for contrast.
MicInputNewSucceeds(p) == {NoError}

\* MicInput::new of the stub crates:
\* `Err(AudioError::PlatformNotSupported("Linux mic capture coming soon".to_string()))`
MicInputNew(p) == {PlatformNotSupported(PlatformName(p) \o " mic capture coming soon")}

\* SpeakerInput::new of the stub crates.
SpeakerInputNew(p) ==
    {PlatformNotSupported(PlatformName(p) \o " speaker capture coming soon")}

\* list_devices of the stub crates.
list_devices(p) == {PlatformNotSupported(PlatformName(p) \o " support coming soon")}

SpeakerMacOnlyMsg == "Speaker capture is only supported on macOS"

\* start_mic_capture built against a stub crate: the running check, then
\* `MicInput::new().map_err(|e| e.to_string())?`; were the input acquired,
\* the flags would be written and the thread spawned.
StubStartMic ==
    IF is_running("mic")
    THEN /\ Event(Return("start", "mic", AlreadyRunningMsg("mic")))
         /\ UNCHANGED <<running, stop_signal, calls, thr>>
    ELSE \E r \in MicInputNew(platform) :
            IF r = NoError
            THEN /\ set_running("mic", TRUE)
                 /\ reset_stop_signal("mic")
                 /\ thr' = Inc(thr, <<"setup", "mic">>)
                 /\ Event(Return("start", "mic", "Ok"))
                 /\ UNCHANGED calls
            ELSE /\ Event(ReturnErr("start", "mic", r, MapErrToString(r)))
                 /\ UNCHANGED <<running, stop_signal, calls, thr>>

\* stop_mic_capture, which is the same code on every platform.
StubStopMic ==
    /\ IF is_running("mic")
       THEN signal_stop("mic") /\ Event(Return("stop", "mic", "Ok"))
       ELSE Event(Return("stop", "mic", NotRunningMsg("mic"))) /\ UNCHANGED stop_signal
    /\ UNCHANGED <<running, calls, thr>>

\* is_mic_capturing, the same code on every platform.
StubIsMicCapturing ==
    /\ Event(Return("is_capturing", "mic", IF is_running("mic") THEN "true" ELSE "false"))
    /\ UNCHANGED <<running, stop_signal, calls, thr>>

\* #[cfg(not(target_os = "macos"))] start_speaker_capture
StubStartSpeaker ==
    /\ Event(Return("start", "speaker", SpeakerMacOnlyMsg))
    /\ UNCHANGED <<running, stop_signal, calls, thr>>

\* #[cfg(not(target_os = "macos"))] stop_speaker_capture
StubStopSpeaker ==
    /\ Event(Return("stop", "speaker", SpeakerMacOnlyMsg))
    /\ UNCHANGED <<running, stop_signal, calls, thr>>

\* #[cfg(not(target_os = "macos"))] is_speaker_capturing
StubIsSpeakerCapturing ==
    /\ Event(Return("is_capturing", "speaker", "false"))
    /\ UNCHANGED <<running, stop_signal, calls, thr>>

\* An acquisition attempt outside the commands: SpeakerInput::new.
StubSpeakerInputNew ==
    /\ \E r \in SpeakerInputNew(platform) :
        Event(ReturnErr("new", "speaker", r, ErrorDisplay(r)))
    /\ UNCHANGED <<running, stop_signal, calls, thr>>

\* list_audio_devices: `list_devices().map_err(|e| e.to_string())`
StubListDevices ==
    /\ \E r \in list_devices(platform) :
        Event(ReturnErr("list_devices", "none", r, MapErrToString(r)))
    /\ UNCHANGED <<running, stop_signal, calls, thr>>

StubNext ==
    \/ StubStartMic
    \/ StubStopMic
    \/ StubIsMicCapturing
    \/ StubStartSpeaker
    \/ StubStopSpeaker
    \/ StubIsSpeakerCapturing
    \/ StubSpeakerInputNew
    \/ StubListDevices

(***************************************************************************)
(* The speaker stream (speaker.rs)                                         *)
(***************************************************************************)
\* `const SAMPLES_PER_CHUNK: usize = 1024;` and
\* `const BUFFER_CAPACITY_MULTIPLIER: usize = 64;`
SAMPLES_PER_CHUNK == 1024
BUFFER_CAPACITY_MULTIPLIER == 64

\* `let buffer_capacity = SAMPLES_PER_CHUNK * BUFFER_CAPACITY_MULTIPLIER;`
buffer_capacity == SamplesPerChunk * CapacityMultiplier

\* A session delivers enough samples to fill the ring buffer and overflow it.
MaxDelivered == buffer_capacity + MaxSlice

Min(a, b) == IF a <= b THEN a ELSE b

\* `const DEFAULT_SAMPLE_RATE: u32 = 48000;`
DEFAULT_SAMPLE_RATE == 48000

\* Nominal sample rates a device may report.
Rates == {44100, 48000}

\* No IO-proc invocation yet, no poll yet.
NoCallback == [reported |-> FALSE, rate |-> 0, n |-> 0, pushed |-> 0, dropped |-> 0, ret |-> "none"]
NoPoll == [res |-> "none", chunk |-> <<>>]

\* SpeakerInput::stream on a tap whose format has sample rate r: an empty
\* ring buffer, an empty wake cell, current_sample_rate = r.
StreamOpen(r) ==
    /\ rb = <<>>
    /\ has_data = FALSE
    /\ waker = "none"
    /\ p_pc = "idle"
    /\ c_pc = "idle"
    /\ delivered = 0
    /\ notified = FALSE
    /\ run_wakes = 0
    /\ run_pushes = 0
    /\ in_run = FALSE
    /\ cb = NoCallback
    /\ polled = NoPoll
    /\ current_sample_rate = r
    /\ format_rate = r
    /\ hist = [accepted |-> <<>>, yielded |-> <<>>]

StreamInit == StreamOpen(DEFAULT_SAMPLE_RATE)

\* A push that kept the end of the slice instead of its beginning, for
\* contrast.
push_slice_suffix(buf, data) ==
    buf \o SubSeq(data, Len(data) - Min(Len(data), buffer_capacity - Len(buf)) + 1, Len(data))

\* A push that made room by discarding the oldest buffered samples, for
\* contrast.
push_slice_overwrite(buf, data) ==
    SubSeq(buf \o data,
           Len(buf \o data) - Min(Len(buf \o data), buffer_capacity) + 1,
           Len(buf \o data))

\* A push into a buffer that grew to hold whatever it was given, for
\* contrast.
push_slice_unbounded(buf, data) == buf \o data

\* ringbuf's push_slice: the longest prefix of the slice that fits.
push_slice(buf, data) ==
    buf \o SubSeq(data, 1, Min(Len(data), buffer_capacity - Len(buf)))

\* The samples of one delivery: the last n samples the device handed over.
Slice(n) == [i \in 1..n |-> delivered - n + i]

\* An invocation that left current_sample_rate as it found it, for contrast.
ProducerBeginKeepsRate ==
    /\ p_pc = "idle"
    /\ \E n \in 0..MaxSlice, ok \in BOOLEAN, r \in Rates :
        /\ delivered + n <= MaxDelivered
        /\ delivered' = delivered + n
        /\ cb' = [reported |-> ok, rate |-> r, n |-> n, pushed |-> 0, dropped |-> 0,
                  ret |-> "running"]
    /\ p_pc' = "push"
    /\ UNCHANGED <<rb, has_data, waker, c_pc, notified, run_wakes, run_pushes, in_run,
                   polled, current_sample_rate, format_rate>>
    /\ UNCHANGED hist
    /\ UNCHANGED <<lifecycle_vars, conv, sess, handoff_vars>>

\* The IO proc is invoked with n samples.  `let after = device
\* .nominal_sample_rate().unwrap_or(ctx.format.absd().sample_rate) as u32;`
\* and `if before != after { ctx.current_sample_rate.store(after) }`.
ProducerBegin ==
    /\ p_pc = "idle"
    /\ \E n \in 0..MaxSlice, ok \in BOOLEAN, r \in Rates :
        /\ delivered + n <= MaxDelivered
        /\ delivered' = delivered + n
        /\ cb' = [reported |-> ok, rate |-> r, n |-> n, pushed |-> 0, dropped |-> 0,
                  ret |-> "running"]
        /\ LET after == IF ok THEN r ELSE format_rate
               before == current_sample_rate
           IN current_sample_rate' = IF before # after THEN after ELSE before
    /\ p_pc' = "push"
    /\ UNCHANGED <<rb, has_data, waker, c_pc, notified, run_wakes, run_pushes, in_run,
                   polled, format_rate>>
    /\ UNCHANGED hist
    /\ UNCHANGED <<lifecycle_vars, conv, sess, handoff_vars>>

\* What the invocation records once its slice has been pushed: `pushed`, the
\* `dropped` it logs when pushed < data.len(), and NO_ERR if it returns here.
Pushed(before, after) ==
    [cb EXCEPT !.pushed = Len(after) - Len(before),
               !.dropped = cb.n - (Len(after) - Len(before)),
               !.ret = IF Len(after) > Len(before) THEN "running" ELSE "NO_ERR"]

\* A push that waited for room instead of dropping, for contrast.
ProducerPushWaitsForRoom ==
    /\ p_pc = "push"
    /\ cb.n <= buffer_capacity - Len(rb)
    /\ rb' = push_slice(rb, Slice(cb.n))
    /\ cb' = Pushed(rb, rb')
    /\ p_pc' = IF Len(rb') > Len(rb) THEN "notify" ELSE "idle"
    /\ run_pushes' = IF Len(rb') > Len(rb) THEN run_pushes + 1 ELSE run_pushes
    /\ in_run' = TRUE
    /\ UNCHANGED <<has_data, waker, c_pc, delivered, notified, run_wakes,
                   polled, current_sample_rate, format_rate>>
    /\ hist' = [hist EXCEPT !.accepted = @ \o SubSeq(Slice(cb.n), 1, cb'.pushed)]
    /\ UNCHANGED <<lifecycle_vars, conv, sess, handoff_vars>>

\* A callback that went on to the wake cell whatever it had pushed, for
\* contrast.
ProducerPushAlwaysNotifies ==
    /\ p_pc = "push"
    /\ rb' = push_slice(rb, Slice(cb.n))
    /\ cb' = [Pushed(rb, rb') EXCEPT !.ret = "running"]
    /\ p_pc' = "notify"
    /\ run_pushes' = IF Len(rb') > Len(rb) THEN run_pushes + 1 ELSE run_pushes
    /\ in_run' = TRUE
    /\ UNCHANGED <<has_data, waker, c_pc, delivered, notified, run_wakes,
                   polled, current_sample_rate, format_rate>>
    /\ hist' = [hist EXCEPT !.accepted = @ \o SubSeq(Slice(cb.n), 1, cb'.pushed)]
    /\ UNCHANGED <<lifecycle_vars, conv, sess, handoff_vars>>

\* process_audio_data, `let pushed = ctx.producer.push_slice(data);`, the
\* overflow warning and the `if pushed > 0` that guards the notification;
\* with nothing pushed the IO proc returns NO_ERR.
ProducerPush ==
    /\ p_pc = "push"
    /\ rb' = push_slice(rb, Slice(cb.n))
    /\ cb' = Pushed(rb, rb')
    /\ p_pc' = IF Len(rb') > Len(rb) THEN "notify" ELSE "idle"
    /\ run_pushes' = IF Len(rb') > Len(rb) THEN run_pushes + 1 ELSE run_pushes
    /\ in_run' = TRUE
    /\ UNCHANGED <<has_data, waker, c_pc, delivered, notified, run_wakes,
                   polled, current_sample_rate, format_rate>>
    /\ hist' = [hist EXCEPT !.accepted = @ \o SubSeq(Slice(cb.n), 1, cb'.pushed)]
    /\ UNCHANGED <<lifecycle_vars, conv, sess, handoff_vars>>

\* The IO proc returns: `os::Status::NO_ERR`.
Returned == [cb EXCEPT !.ret = "NO_ERR"]

\* A callback that woke the registered waker on every push, for contrast.
ProducerNotifyEveryPush ==
    /\ p_pc = "notify"
    /\ p_pc' = IF waker # "none" THEN "wake" ELSE "idle"
    /\ cb' = IF waker # "none" THEN cb ELSE Returned
    /\ UNCHANGED <<rb, has_data, waker, c_pc, delivered, notified, run_wakes, run_pushes, in_run,
                   polled, current_sample_rate, format_rate>>
    /\ UNCHANGED hist
    /\ UNCHANGED <<lifecycle_vars, conv, sess, handoff_vars>>

\* A critical section that took the waker only when has_data was already
\* true, for contrast.
ProducerNotifyInverted ==
    /\ p_pc = "notify"
    /\ IF has_data
       THEN /\ waker' = "none"
            /\ p_pc' = IF waker # "none" THEN "wake" ELSE "idle"
            /\ UNCHANGED has_data
       ELSE /\ has_data' = TRUE
            /\ p_pc' = "idle"
            /\ UNCHANGED waker
    /\ cb' = IF p_pc' = "wake" THEN cb ELSE Returned
    /\ UNCHANGED <<rb, c_pc, delivered, notified, run_wakes, run_pushes, in_run,
                   polled, current_sample_rate, format_rate>>
    /\ UNCHANGED hist
    /\ UNCHANGED <<lifecycle_vars, conv, sess, handoff_vars>>

\* A critical section that woke a copy of the waker and left the waker in
\* the cell, for contrast.
ProducerNotifyKeepsWaker ==
    /\ p_pc = "notify"
    /\ IF ~has_data
       THEN /\ has_data' = TRUE
            /\ p_pc' = IF waker # "none" THEN "wake" ELSE "idle"
            /\ UNCHANGED waker
       ELSE /\ p_pc' = "idle"
            /\ UNCHANGED <<has_data, waker>>
    /\ cb' = IF p_pc' = "wake" THEN cb ELSE Returned
    /\ UNCHANGED <<rb, c_pc, delivered, notified, run_wakes, run_pushes, in_run,
                   polled, current_sample_rate, format_rate>>
    /\ UNCHANGED hist
    /\ UNCHANGED <<lifecycle_vars, conv, sess, handoff_vars>>

\* The critical section on the wake cell:
\* `if !waker_state.has_data { waker_state.has_data = true; waker_state.waker.take() } else { None }`
ProducerNotify ==
    /\ p_pc = "notify"
    /\ IF ~has_data
       THEN /\ has_data' = TRUE
            /\ waker' = "none"
            /\ p_pc' = IF waker # "none" THEN "wake" ELSE "idle"
       ELSE /\ p_pc' = "idle"
            /\ UNCHANGED <<has_data, waker>>
    /\ cb' = IF p_pc' = "wake" THEN cb ELSE Returned
    /\ UNCHANGED <<rb, c_pc, delivered, notified, run_wakes, run_pushes, in_run,
                   polled, current_sample_rate, format_rate>>
    /\ UNCHANGED hist
    /\ UNCHANGED <<lifecycle_vars, conv, sess, handoff_vars>>

\* `if let Some(waker) = should_wake { waker.wake(); }`
ProducerWake ==
    /\ p_pc = "wake"
    /\ notified' = TRUE
    /\ run_wakes' = IF in_run THEN run_wakes + 1 ELSE run_wakes
    /\ p_pc' = "idle"
    /\ cb' = Returned
    /\ UNCHANGED <<rb, has_data, waker, c_pc, delivered, run_pushes, in_run,
                   polled, current_sample_rate, format_rate>>
    /\ UNCHANGED hist
    /\ UNCHANGED <<lifecycle_vars, conv, sess, handoff_vars>>

\* A poll that copied the samples out and left them in the buffer, for
\* contrast.
ConsumerPopKeepsSamples ==
    /\ c_pc \in {"idle", "pending"}
    /\ LET popped == Min(Len(rb), SamplesPerChunk) IN
        /\ rb' = rb
        /\ c_pc' = IF popped > 0 THEN "idle" ELSE "register"
        /\ polled' = IF popped > 0
                     THEN [res |-> "Ready", chunk |-> SubSeq(rb, 1, popped)]
                     ELSE NoPoll
    /\ notified' = FALSE
    /\ run_wakes' = 0
    /\ run_pushes' = 0
    /\ in_run' = FALSE
    /\ UNCHANGED <<has_data, waker, p_pc, delivered, cb, current_sample_rate, format_rate>>
    /\ hist' = [hist EXCEPT !.yielded = @ \o polled'.chunk]
    /\ UNCHANGED <<lifecycle_vars, conv, sess, handoff_vars>>

\* A poll that drained the whole buffer into one chunk, for contrast.
ConsumerPopDrainsAll ==
    /\ c_pc \in {"idle", "pending"}
    /\ LET popped == Len(rb) IN
        /\ rb' = SubSeq(rb, popped + 1, Len(rb))
        /\ c_pc' = IF popped > 0 THEN "idle" ELSE "register"
        /\ polled' = IF popped > 0
                     THEN [res |-> "Ready", chunk |-> SubSeq(rb, 1, popped)]
                     ELSE NoPoll
    /\ notified' = FALSE
    /\ run_wakes' = 0
    /\ run_pushes' = 0
    /\ in_run' = FALSE
    /\ UNCHANGED <<has_data, waker, p_pc, delivered, cb, current_sample_rate, format_rate>>
    /\ hist' = [hist EXCEPT !.yielded = @ \o polled'.chunk]
    /\ UNCHANGED <<lifecycle_vars, conv, sess, handoff_vars>>

\* poll_next, `let popped = this.consumer.pop_slice(&mut this.read_buffer);`
\* with Ready(Some(this.read_buffer[..popped].to_vec())) when popped > 0;
\* read_buffer holds SAMPLES_PER_CHUNK samples.  The task polls when it is
\* woken and whenever its select loop comes round again.
ConsumerPop ==
    /\ c_pc \in {"idle", "pending"}
    /\ LET popped == Min(Len(rb), SamplesPerChunk) IN
        /\ rb' = SubSeq(rb, popped + 1, Len(rb))
        /\ c_pc' = IF popped > 0 THEN "idle" ELSE "register"
        /\ polled' = IF popped > 0
                     THEN [res |-> "Ready", chunk |-> SubSeq(rb, 1, popped)]
                     ELSE NoPoll
    /\ notified' = FALSE
    /\ run_wakes' = 0
    /\ run_pushes' = 0
    /\ in_run' = FALSE
    /\ UNCHANGED <<has_data, waker, p_pc, delivered, cb, current_sample_rate, format_rate>>
    /\ hist' = [hist EXCEPT !.yielded = @ \o polled'.chunk]
    /\ UNCHANGED <<lifecycle_vars, conv, sess, handoff_vars>>

\* `state.has_data = false; state.waker = Some(cx.waker().clone());` then
\* Poll::Pending
ConsumerRegister ==
    /\ c_pc = "register"
    /\ has_data' = FALSE
    /\ waker' = "task"
    /\ c_pc' = "pending"
    /\ polled' = [res |-> "Pending", chunk |-> <<>>]
    /\ run_wakes' = 0
    /\ run_pushes' = 0
    /\ in_run' = FALSE
    /\ UNCHANGED <<rb, p_pc, delivered, notified, cb, current_sample_rate, format_rate>>
    /\ UNCHANGED hist
    /\ UNCHANGED <<lifecycle_vars, conv, sess, handoff_vars>>

\* SpeakerStream::sample_rate: `self.current_sample_rate.load(Acquire)`
sample_rate == current_sample_rate

(***************************************************************************)
(* conversion.rs: integer samples to f32                                   *)
(*                                                                         *)
(* f32 is modelled as a binary floating-point format with MantissaBits     *)
(* significant bits and round-to-nearest-even; a value x of the format is  *)
(* held as the integer x * 2^FracBits, which is exact for every value that *)
(* the conversions meet.  i16 and i32 are two's-complement types of        *)
(* I16Bits and I32Bits bits: like i16, every I16Bits-bit integer is a      *)
(* value of the format; like i32, the I32Bits-bit integers are not.        *)
(***************************************************************************)
RECURSIVE Pow2(_)
Pow2(n) == IF n = 0 THEN 1 ELSE 2 * Pow2(n - 1)

FracBits == I32Bits + MantissaBits
One == Pow2(FracBits)

I16_MIN == 0 - Pow2(I16Bits - 1)
I16_MAX == Pow2(I16Bits - 1) - 1
I32_MIN == 0 - Pow2(I32Bits - 1)
I32_MAX == Pow2(I32Bits - 1) - 1
I16 == I16_MIN..I16_MAX
I32 == I32_MIN..I32_MAX

Abs(x) == IF x < 0 THEN 0 - x ELSE x

\* a / b for positive integers, rounded to the nearest integer, ties to even.
RoundHalfEven(a, b) ==
    LET q == a \div b
        r == a % b
    IN IF 2 * r > b \/ (2 * r = b /\ q % 2 = 1) THEN q + 1 ELSE q

\* The exponent of the unit in the last place of the positive rational n / d:
\* the e with 2^(MantissaBits-1) <= (n / d) / 2^e < 2^MantissaBits.
UlpExponent(n, d) ==
    CHOOSE e \in (0 - FracBits)..I32Bits :
        IF e >= 0
        THEN /\ Pow2(MantissaBits - 1) * Pow2(e) * d <= n
             /\ n < Pow2(MantissaBits) * Pow2(e) * d
        ELSE /\ Pow2(MantissaBits - 1) * d <= n * Pow2(0 - e)
             /\ n * Pow2(0 - e) < Pow2(MantissaBits) * d

\* The value of the format nearest to the rational num / den (den > 0).
RoundToF32(num, den) ==
    IF num = 0 THEN 0
    ELSE LET n == Abs(num)
             e == UlpExponent(n, den)
             q == IF e >= 0 THEN RoundHalfEven(n, den * Pow2(e))
                            ELSE RoundHalfEven(n * Pow2(0 - e), den)
             mag == q * Pow2(e + FracBits)
         IN IF num < 0 THEN 0 - mag ELSE mag

\* `sample as f32`, `i16::MAX as f32`: the nearest value of the format.
IntAsF32(i) == RoundToF32(i, 1)

\* The largest power of two that divides both a and b (b # 0).
RECURSIVE CommonPow2(_, _)
CommonPow2(a, b) ==
    IF a % 2 = 0 /\ b % 2 = 0 THEN 2 * CommonPow2(a \div 2, b \div 2) ELSE 1

\* f32 division: the quotient of two values of the format (b > 0), rounded.
F32Div(a, b) == RoundToF32(a \div CommonPow2(a, b), b \div CommonPow2(a, b))

\* A conversion without the special case for the minimum, for contrast.
i16_to_f32_unguarded(sample) == F32Div(IntAsF32(sample), IntAsF32(I16_MAX))

\* `if sample == i16::MIN { -1.0 } else { sample as f32 / i16::MAX as f32 }`
i16_to_f32(sample) ==
    IF sample = I16_MIN
    THEN 0 - One
    ELSE F32Div(IntAsF32(sample), IntAsF32(I16_MAX))

\* `if sample == i32::MIN { -1.0 } else { sample as f32 / i32::MAX as f32 }`
i32_to_f32(sample) ==
    IF sample = I32_MIN
    THEN 0 - One
    ELSE F32Div(IntAsF32(sample), IntAsF32(I32_MAX))

\* No sample converted yet.
ConvInit == conv = [fmt |-> "none", sample |-> 0, out |-> 0]

\* The conversion applied to one sample of a PcmI16 / SampleFormat::I16
\* buffer.
ConvertI16 ==
    /\ \E sample \in I16 :
        conv' = [fmt |-> "i16", sample |-> sample, out |-> i16_to_f32(sample)]
    /\ UNCHANGED <<lifecycle_vars, stream_vars, sess, handoff_vars>>

\* The conversion applied to one sample of a PcmI32 / SampleFormat::I32
\* buffer.
ConvertI32 ==
    /\ \E sample \in I32 :
        conv' = [fmt |-> "i32", sample |-> sample, out |-> i32_to_f32(sample)]
    /\ UNCHANGED <<lifecycle_vars, stream_vars, sess, handoff_vars>>

\* Most channels a frame has.
MaxChannels == 3

\* The f32 samples fed to convert_to_mono: the values m / 2^MantissaBits
\* between -1.0 and 1.0.
SampleValues ==
    {m * (One \div Pow2(MantissaBits)) :
        m \in (0 - Pow2(MantissaBits))..Pow2(MantissaBits)}

\* f32 addition: the sum of two values of the format, rounded.
F32Add(a, b) ==
    RoundToF32((a + b) \div CommonPow2(a + b, One), One \div CommonPow2(a + b, One))

\* `frame.iter().sum::<f32>()`: the samples added one by one, from 0.0.
RECURSIVE F32Sum(_)
F32Sum(frame) ==
    IF Len(frame) = 0
    THEN 0
    ELSE F32Add(F32Sum(SubSeq(frame, 1, Len(frame) - 1)), frame[Len(frame)])

\* `data.chunks(channels)`: frames of `channels` samples, the last one
\* shorter when the length is no multiple of it.
Chunks(data, channels) ==
    [i \in 1..((Len(data) + channels - 1) \div channels) |->
        SubSeq(data, (i - 1) * channels + 1, Min(i * channels, Len(data)))]

\* `if channels == 1 { return data.to_vec(); }` and
\* `data.chunks(channels).map(|frame| frame.iter().sum::<f32>() / channels as f32).collect()`
convert_to_mono(data, channels) ==
    IF channels = 1
    THEN data
    ELSE [i \in 1..Len(Chunks(data, channels)) |->
            F32Div(F32Sum(Chunks(data, channels)[i]), IntAsF32(channels))]

\* A buffer of two frames handed to the input callback: every channel of the
\* first frame holds v, every channel of the second holds w.
MonoInit ==
    /\ LifecycleInit
    /\ StreamInit
    /\ \E channels \in 1..MaxChannels, v \in SampleValues, w \in SampleValues :
        conv = [fmt |-> "f32",
                sample |-> [channels |-> channels,
                            data |-> [i \in 1..(2 * channels) |->
                                        IF i <= channels THEN v ELSE w]],
                out |-> <<>>]

\* `let mono = convert_to_mono(data, channels);` in the input callback.
ConvertToMono ==
    /\ conv.fmt = "f32"
    /\ conv' = [fmt |-> "mono", sample |-> conv.sample,
                out |-> convert_to_mono(conv.sample.data, conv.sample.channels)]
    /\ UNCHANGED <<lifecycle_vars, stream_vars, sess, handoff_vars>>

MonoNext == ConvertToMono

MonoSpec == MonoInit /\ [][MonoNext]_vars

\* A buffer of two frames of two or more channels: the channels of the first
\* frame hold v and u in turn, those of the second u and v in turn.
MeanInit ==
    /\ LifecycleInit
    /\ StreamInit
    /\ \E channels \in 2..MaxChannels, v \in SampleValues, u \in SampleValues :
        conv = [fmt |-> "f32",
                sample |-> [channels |-> channels,
                            data |-> [i \in 1..(2 * channels) |->
                                        IF (i + (i - 1) \div channels) % 2 = 1 THEN v ELSE u]],
                out |-> <<>>]

MeanSpec == MeanInit /\ [][MonoNext]_vars

\* The sum of the samples of a frame, without rounding.
RECURSIVE ExactSum(_)
ExactSum(frame) ==
    IF Len(frame) = 0 THEN 0 ELSE ExactSum(SubSeq(frame, 1, Len(frame) - 1)) + frame[Len(frame)]

\* The arithmetic mean of a frame as the f32 nearest to it.
MeanOf(frame) == F32Div(ExactSum(frame), IntAsF32(Len(frame)))

Init == LifecycleInit /\ StreamInit /\ ConvInit

Next == \E s \in Sources : CommandStep(s) \/ ThreadStep(s)

Spec == Init /\ [][Next]_vars

\* The sources idle again after earlier sessions: every count is zero and a
\* stop signal that a stop of an earlier session stored may still be true
\* (nothing but the next start resets it).
RestartInit ==
    /\ running = [s \in Sources |-> FALSE]
    /\ stop_signal \in [Sources -> BOOLEAN]
    /\ calls = [k \in CallKinds |-> 0]
    /\ thr = [k \in ThreadKinds |-> 0]
    /\ ev = NoEvent
    /\ device = [s \in Sources |-> 0]
    /\ platform = "macos"
    /\ sess = NoSession
    /\ HandOffInit
    /\ StreamInit
    /\ ConvInit

\* Later sessions in which no stop command is issued: starts, queries and
\* the capture threads.
RestartNext ==
    \E s \in Sources :
        \/ StartAlreadyRunning(s)
        \/ StartAcquireFailed(s)
        \/ StartAcquired(s)
        \/ StartSetRunning(s)
        \/ StartResetStop(s)
        \/ StartSpawn(s)
        \/ StartReturn(s)
        \/ IsCapturing(s)
        \/ ThreadStep(s)

RestartSpec == RestartInit /\ [][RestartNext]_vars

(***************************************************************************)
(* One capture thread of the microphone, followed through its loop        *)
(***************************************************************************)
\* The thread that `sess` follows is not counted in `thr`; every other
\* thread of the source is. `sess` holds its position, whether saving was
\* enabled when it started, whether it holds a WAV writer, the chunk of its latest iteration, the samples of that chunk
\* handed to the writer, whether a write failed, and how many chunks (none,
\* one, or more) it has taken since a stop last stored the stop signal while
\* it was in its loop.
\* A chunk of n samples, each named by its place in the chunk.
Chunk(n) == [i \in 1..n |-> i]

InLoop == sess.pc \in {"loop", "select"}

\* A hand-off that wrote the newest sample first, for contrast.
HandOffReversed(chunk, n) == [i \in 1..n |-> chunk[Len(chunk) + 1 - i]]

\* `for &sample in &samples { if let Err(e) = writer.write_sample(sample)
\* { warn; break; } }` with the writes that succeed: the first n samples.
HandOff(chunk, n) == SubSeq(chunk, 1, n)

\* `thread::spawn(..)`: the thread spawned is the one followed, if none is.
CaptureSpawn ==
    /\ calls[<<"spawn", "mic">>] > 0
    /\ calls' = Move(calls, <<"spawn", "mic">>, <<"return", "mic">>)
    /\ IF sess.pc = "none"
          THEN /\ sess' = [NoSession EXCEPT !.pc = "setup"]
               /\ UNCHANGED thr
          ELSE /\ thr' = Inc(thr, <<"setup", "mic">>)
               /\ UNCHANGED sess
    /\ ev' = NoEvent
    /\ UNCHANGED <<running, stop_signal, device, platform, stream_vars, conv, handoff_vars>>

\* The runtime, the input or the stream could not be created: log,
\* `running.store(false)`, return.
CaptureSetupFailed ==
    /\ sess.pc = "setup"
    /\ set_running("mic", FALSE)
    /\ sess' = NoSession
    /\ ev' = NoEvent
    /\ UNCHANGED <<stop_signal, calls, thr, device, platform, stream_vars, conv, handoff_vars>>

\* The stream is open; `let mut wav_writer = if debug_config.enabled &&
\* debug_config.save_audio_files { match create_wav_writer(..) { Ok(..) =>
\* Some(..), Err(e) => None } } else { None };`
CaptureStarted ==
    /\ sess.pc = "setup"
    /\ \E save \in BOOLEAN, created \in BOOLEAN :
          sess' = [sess EXCEPT !.pc = "loop", !.save = save,
                                     !.writer = save /\ created]
    /\ device' = [device EXCEPT !["mic"] = @ + 1]
    /\ ev' = NoEvent
    /\ UNCHANGED <<running, stop_signal, calls, thr, platform, stream_vars, conv, handoff_vars>>

\* `if stop_signal.load(Ordering::SeqCst) { break; }`; the chunk of the
\* iteration before was dropped at the end of that iteration.
CaptureCheckStop ==
    /\ sess.pc = "loop"
    /\ sess' = [sess EXCEPT !.pc = IF stop_signal["mic"] THEN "finalize" ELSE "select",
                            !.chunk = <<>>, !.wrote = <<>>, !.failed = FALSE]
    /\ ev' = NoEvent
    /\ UNCHANGED <<running, stop_signal, calls, thr, device, platform, stream_vars, conv, handoff_vars>>

\* A select whose hand-off left the capture loop at the first failed write,
\* for contrast.
CaptureSelectEndsOnFailure ==
    /\ sess.pc = "select"
    /\ \E o \in StreamOutcomes("mic") :
          CASE o = "chunk" ->
                 \E n \in 1..SamplesPerChunk : \E k \in 0..n :
                    sess' = [sess EXCEPT
                               !.pc = IF sess.writer /\ k < n THEN "finalize" ELSE "loop",
                               !.chunk = Chunk(n),
                               !.wrote = IF sess.writer THEN HandOff(Chunk(n), k) ELSE <<>>,
                               !.failed = sess.writer /\ k < n,
                               !.after_stop =
                                   IF sess.stopped /\ @ < 2 THEN @ + 1 ELSE @]
            [] o = "timeout" -> sess' = [sess EXCEPT !.pc = "loop"]
            [] OTHER -> sess' = [sess EXCEPT !.pc = "finalize"]
    /\ ev' = NoEvent
    /\ UNCHANGED <<running, stop_signal, calls, thr, device, platform, stream_vars, conv, handoff_vars>>

\* `tokio::select! { biased; audio = stream.next() => match audio {
\* Some(samples) => the hand-off, None => break }, _ = sleep(100 ms) => {} }`
CaptureSelect ==
    /\ sess.pc = "select"
    /\ \E o \in StreamOutcomes("mic") :
          CASE o = "chunk" ->
                 \E n \in 1..SamplesPerChunk : \E k \in 0..n :
                    sess' = [sess EXCEPT
                               !.pc = "loop",
                               !.chunk = Chunk(n),
                               !.wrote = IF sess.writer THEN HandOff(Chunk(n), k) ELSE <<>>,
                               !.failed = sess.writer /\ k < n,
                               !.after_stop =
                                   IF sess.stopped /\ @ < 2 THEN @ + 1 ELSE @]
            [] o = "timeout" -> sess' = [sess EXCEPT !.pc = "loop"]
            [] OTHER -> sess' = [sess EXCEPT !.pc = "finalize"]
    /\ ev' = NoEvent
    /\ UNCHANGED <<running, stop_signal, calls, thr, device, platform, stream_vars, conv, handoff_vars>>

\* After the loop: finalize the WAV file, then `running.store(false)`.
CaptureStoreStopped ==
    /\ sess.pc = "finalize"
    /\ set_running("mic", FALSE)
    /\ sess' = [sess EXCEPT !.pc = "drop"]
    /\ ev' = NoEvent
    /\ UNCHANGED <<stop_signal, calls, thr, device, platform, stream_vars, conv, handoff_vars>>

\* The end of the async block: the stream is dropped, the thread ends.
CaptureDropStream ==
    /\ sess.pc = "drop"
    /\ sess' = NoSession
    /\ device' = [device EXCEPT !["mic"] = @ - 1]
    /\ ev' = NoEvent
    /\ UNCHANGED <<running, stop_signal, calls, thr, platform, stream_vars, conv, handoff_vars>>

\* `state.signal_mic_stop(); Ok(())`, noting whether the thread followed was
\* in its loop when the signal was stored.
CaptureStopSignal ==
    /\ calls[<<"signal", "mic">>] > 0
    /\ signal_stop("mic")
    /\ calls' = Dec(calls, <<"signal", "mic">>)
    /\ sess' = IF InLoop THEN [sess EXCEPT !.stopped = TRUE, !.after_stop = 0]
                         ELSE sess
    /\ ev' = Return("stop", "mic", "Ok")
    /\ UNCHANGED <<running, thr, device, platform, stream_vars, conv, handoff_vars>>

CaptureNext ==
    \/ StartAlreadyRunning("mic")
    \/ StartAcquireFailed("mic")
    \/ StartAcquired("mic")
    \/ StartSetRunning("mic")
    \/ StartResetStop("mic")
    \/ CaptureSpawn
    \/ StartReturn("mic")
    \/ StopNotRunning("mic")
    \/ StopCheckPassed("mic")
    \/ CaptureStopSignal
    \/ IsCapturing("mic")
    \/ ThreadStep("mic")
    \/ CaptureSetupFailed
    \/ CaptureStarted
    \/ CaptureCheckStop
    \/ CaptureSelect
    \/ CaptureStoreStopped
    \/ CaptureDropStream

CaptureSpec == Init /\ [][CaptureNext]_vars

StreamNext ==
    \/ ProducerBegin
    \/ ProducerPush
    \/ ProducerNotify
    \/ ProducerWake
    \/ ConsumerPop
    \/ ConsumerRegister

\* A speaker session under way: the start has returned, the task has opened
\* its stream on a tap of some rate and is polling it in its loop.
StreamSessionInit ==
    /\ running = [s \in Sources |-> s = "speaker"]
    /\ stop_signal = [s \in Sources |-> FALSE]
    /\ calls = [k \in CallKinds |-> 0]
    /\ thr = [k \in ThreadKinds |-> IF k = <<"select", "speaker">> THEN 1 ELSE 0]
    /\ ev = NoEvent
    /\ device = [s \in Sources |-> IF s = "speaker" THEN 1 ELSE 0]
    /\ platform = "macos"
    /\ sess = NoSession
    /\ HandOffInit
    /\ \E r \in Rates : StreamOpen(r)
    /\ ConvInit

StreamSpec == StreamSessionInit /\ [][StreamNext]_vars

(***************************************************************************)
(* speaker.rs: the mutex of the wake cell, step by step                    *)
(*                                                                         *)
(* In StreamSpec each critical section is one step.  Here a critical       *)
(* section is three: `waker_state.lock()`, which waits until the mutex is  *)
(* free, the updates of the cell, and the release of the guard at the end  *)
(* of its block.  The ring buffer is lock-free: push_slice and pop_slice   *)
(* take no lock.                                                           *)
(***************************************************************************)
\* process_audio_data: `let mut waker_state = ctx.waker_state.lock().unwrap();`
ProducerLock ==
    /\ p_pc = "notify"
    /\ lock = "free"
    /\ lock' = "producer"
    /\ p_pc' = "locked"
    /\ UNCHANGED <<rb, has_data, waker, c_pc, delivered, notified, run_wakes, run_pushes,
                   in_run, cb, polled, current_sample_rate, format_rate, hist>>
    /\ UNCHANGED <<lifecycle_vars, conv, sess, released, mic>>

\* `if !waker_state.has_data { waker_state.has_data = true;
\* waker_state.waker.take() } else { None }`, the value of should_wake
ProducerTakeWaker ==
    /\ p_pc = "locked"
    /\ IF ~has_data
       THEN /\ has_data' = TRUE
            /\ waker' = "none"
            /\ p_pc' = IF waker # "none" THEN "unlock_wake" ELSE "unlock"
       ELSE /\ p_pc' = "unlock"
            /\ UNCHANGED <<has_data, waker>>
    /\ UNCHANGED <<rb, c_pc, delivered, notified, run_wakes, run_pushes,
                   in_run, cb, polled, current_sample_rate, format_rate, hist>>
    /\ UNCHANGED <<lifecycle_vars, conv, sess, handoff_vars>>

\* A callback that kept the guard until it returned, waking the task with
\* the mutex held, for contrast.
ProducerUnlockAfterWake ==
    /\ p_pc \in {"unlock", "unlock_wake"}
    /\ lock' = IF p_pc = "unlock_wake" THEN lock ELSE "free"
    /\ p_pc' = IF p_pc = "unlock_wake" THEN "wake" ELSE "idle"
    /\ cb' = IF p_pc = "unlock_wake" THEN cb ELSE Returned
    /\ UNCHANGED <<rb, has_data, waker, c_pc, delivered, notified, run_wakes, run_pushes,
                   in_run, polled, current_sample_rate, format_rate, hist>>
    /\ UNCHANGED <<lifecycle_vars, conv, sess, released, mic>>

\* The block that computes should_wake ends: the guard is dropped.  Then
\* `if let Some(waker) = should_wake`, or the return.
ProducerUnlock ==
    /\ p_pc \in {"unlock", "unlock_wake"}
    /\ lock' = "free"
    /\ p_pc' = IF p_pc = "unlock_wake" THEN "wake" ELSE "idle"
    /\ cb' = IF p_pc = "unlock_wake" THEN cb ELSE Returned
    /\ UNCHANGED <<rb, has_data, waker, c_pc, delivered, notified, run_wakes, run_pushes,
                   in_run, polled, current_sample_rate, format_rate, hist>>
    /\ UNCHANGED <<lifecycle_vars, conv, sess, released, mic>>

\* poll_next: `let mut state = this.waker_state.lock().unwrap();`
ConsumerLock ==
    /\ c_pc = "register"
    /\ lock = "free"
    /\ lock' = "consumer"
    /\ c_pc' = "locked"
    /\ UNCHANGED <<rb, has_data, waker, p_pc, delivered, notified, run_wakes, run_pushes,
                   in_run, cb, polled, current_sample_rate, format_rate, hist>>
    /\ UNCHANGED <<lifecycle_vars, conv, sess, released, mic>>

\* `state.has_data = false; state.waker = Some(cx.waker().clone());`
ConsumerStoreWaker ==
    /\ c_pc = "locked"
    /\ has_data' = FALSE
    /\ waker' = "task"
    /\ c_pc' = "unlock"
    /\ UNCHANGED <<rb, p_pc, delivered, notified, run_wakes, run_pushes,
                   in_run, cb, polled, current_sample_rate, format_rate, hist>>
    /\ UNCHANGED <<lifecycle_vars, conv, sess, handoff_vars>>

\* The block ends, the guard is dropped; `Poll::Pending`.
ConsumerUnlock ==
    /\ c_pc = "unlock"
    /\ lock' = "free"
    /\ c_pc' = "pending"
    /\ polled' = [res |-> "Pending", chunk |-> <<>>]
    /\ run_wakes' = 0
    /\ run_pushes' = 0
    /\ in_run' = FALSE
    /\ UNCHANGED <<rb, has_data, waker, p_pc, delivered, notified, cb,
                   current_sample_rate, format_rate, hist>>
    /\ UNCHANGED <<lifecycle_vars, conv, sess, released, mic>>

\* The callback's steps and the consumer's steps, any interleaving.
ProducerStep ==
    \/ ProducerBegin
    \/ ProducerPush
    \/ ProducerLock
    \/ ProducerTakeWaker
    \/ ProducerUnlock
    \/ ProducerWake
ConsumerStep ==
    \/ ConsumerPop
    \/ ConsumerLock
    \/ ConsumerStoreWaker
    \/ ConsumerUnlock
LockNext == ProducerStep \/ ConsumerStep

LockSpec == StreamSessionInit /\ [][LockNext]_vars

\* Each side is inside its critical section, or waits for the mutex.
ProducerHolds == p_pc \in {"locked", "unlock", "unlock_wake"}
ConsumerHolds == c_pc \in {"locked", "unlock"}
ProducerWaits == p_pc = "notify" /\ lock # "free"
ConsumerWaits == c_pc = "register" /\ lock # "free"

(***************************************************************************)
(* speaker.rs: dropping a SpeakerStream                                    *)
(*                                                                         *)
(* Drop::drop only logs; the fields are then dropped one by one in the     *)
(* order of their declaration.  The stream is dropped by the task that     *)
(* owns it, so no poll_next is in progress; the IO proc runs on the        *)
(* device's thread and goes on being invoked until the started device is   *)
(* dropped.  Dropping the started device stops the device (AudioDeviceStop,*)
(* in the cidre crate), which returns once no invocation is in progress.   *)
(***************************************************************************)
\* A struct whose context came before the device, for contrast.
SpeakerStreamContextFirst ==
    <<"consumer", "_ctx", "_device", "_tap", "waker_state", "current_sample_rate",
      "read_buffer">>

\* `pub struct SpeakerStream { consumer, _device, _ctx, _tap, waker_state,
\* current_sample_rate, read_buffer }`
SpeakerStream ==
    <<"consumer", "_device", "_ctx", "_tap", "waker_state", "current_sample_rate",
      "read_buffer">>

Released(field) == \E i \in 1..Len(released) : released[i] = field

\* The next field of the stream is dropped.
DropField ==
    /\ c_pc \in {"idle", "pending"}
    /\ Len(released) < Len(SpeakerStream)
    /\ LET field == SpeakerStream[Len(released) + 1] IN
        /\ field = "_device" => p_pc = "idle"
        /\ released' = Append(released, field)
    /\ UNCHANGED <<lifecycle_vars, stream_vars, conv, sess, lock, mic>>

\* The IO proc is invoked while the device is started.
CallbackStep ==
    /\ ~Released("_device")
    /\ (ProducerBegin \/ ProducerPush \/ ProducerNotify \/ ProducerWake)

\* The task polls the stream it owns.
PollStep ==
    /\ released = <<>>
    /\ (ConsumerPop \/ ConsumerRegister)

DropNext ==
    \/ CallbackStep
    \/ PollStep
    \/ DropField

DropSpec == StreamSessionInit /\ [][DropNext]_vars

(***************************************************************************)
(* mic.rs: the channel between the input callback and MicStream            *)
(*                                                                         *)
(* MicInput::stream creates an unbounded channel, moves the sender into    *)
(* the callback of the cpal stream and keeps the stream and the receiver   *)
(* in MicStream.  A chunk is one Vec<f32>, one message of the channel.     *)
(***************************************************************************)
\* Callbacks the device makes on one stream.
MaxChunks == 3

\* The buffer of the k-th callback: n frames of `channels` samples, every
\* sample of the buffer being k / 8.
InputData(k, n, channels) == [i \in 1..(n * channels) |-> k * (One \div 8)]

\* A microphone session under way: the start has returned, the thread has
\* opened its stream on a device of some number of channels (`let (tx, rx) =
\* unbounded_channel()`, build_stream, play) and polls it in its loop.
MicSessionInit ==
    /\ running = [s \in Sources |-> s = "mic"]
    /\ stop_signal = [s \in Sources |-> FALSE]
    /\ calls = [k \in CallKinds |-> 0]
    /\ thr = [k \in ThreadKinds |-> IF k = <<"select", "mic">> THEN 1 ELSE 0]
    /\ ev = NoEvent
    /\ device = [s \in Sources |-> IF s = "mic" THEN 1 ELSE 0]
    /\ platform = "macos"
    /\ sess = NoSession
    /\ lock = "free"
    /\ released = <<>>
    /\ \E channels \in 1..MaxChannels :
        mic = [queue |-> <<>>, sent |-> <<>>, yielded |-> <<>>, tx |-> TRUE, rx |-> TRUE,
               made |-> 0, polled |-> "none", channels |-> channels]
    /\ StreamInit
    /\ ConvInit

\* `tx.send(samples)`: the message joins the queue, or comes back in an Err,
\* which send_samples logs, if the receiver is gone.
send_samples(samples) ==
    IF mic.rx
    THEN [mic EXCEPT !.queue = Append(@, samples), !.sent = Append(@, samples),
                     !.made = @ + 1]
    ELSE [mic EXCEPT !.made = @ + 1]

\* The input callback, which lives as long as the cpal stream does:
\* `let mono = convert_to_mono(data, channels); send_samples(&tx, mono);`
MicCallback ==
    /\ mic.tx
    /\ mic.made < MaxChunks
    /\ \E n \in 1..MaxSlice :
        mic' = send_samples(convert_to_mono(InputData(mic.made + 1, n, mic.channels),
                                            mic.channels))
    /\ UNCHANGED <<lifecycle_vars, stream_vars, conv, sess, lock, released>>

\* A receiver that handed over everything queued as one chunk, for contrast.
MicPollCoalesces ==
    /\ mic.tx /\ mic.rx
    /\ mic' = IF mic.queue # <<>>
              THEN [mic EXCEPT !.queue = <<>>,
                               !.yielded = Append(@, IF Len(mic.queue) = 1
                                                     THEN mic.queue[1]
                                                     ELSE mic.queue[1] \o mic.queue[2]),
                               !.polled = "Ready"]
              ELSE [mic EXCEPT !.polled = IF mic.tx THEN "Pending" ELSE "None"]
    /\ UNCHANGED <<lifecycle_vars, stream_vars, conv, sess, lock, released>>

\* MicStream::poll_next on the stream the thread owns:
\* `Pin::new(&mut self.receiver).poll_recv(cx)`, which is Ready(Some(m)) for
\* the oldest queued message m, Ready(None) when the queue is empty and every
\* sender is gone, Pending otherwise.
MicPoll ==
    /\ mic.tx /\ mic.rx
    /\ mic' = IF mic.queue # <<>>
              THEN [mic EXCEPT !.queue = Tail(@),
                               !.yielded = Append(@, Head(mic.queue)),
                               !.polled = "Ready"]
              ELSE [mic EXCEPT !.polled = IF mic.tx THEN "Pending" ELSE "None"]
    /\ UNCHANGED <<lifecycle_vars, stream_vars, conv, sess, lock, released>>

\* The thread drops its MicStream, field by field.  `_stream` goes first:
\* the cpal stream stops and drops its callback, and the sender with it.
MicDropStream ==
    /\ mic.tx /\ mic.rx
    /\ mic' = [mic EXCEPT !.tx = FALSE]
    /\ UNCHANGED <<lifecycle_vars, stream_vars, conv, sess, lock, released>>

\* `receiver` goes next, and the messages still queued go with it.
MicDropReceiver ==
    /\ ~mic.tx /\ mic.rx
    /\ mic' = [mic EXCEPT !.rx = FALSE, !.queue = <<>>]
    /\ UNCHANGED <<lifecycle_vars, stream_vars, conv, sess, lock, released>>

MicNext ==
    \/ MicCallback
    \/ MicPoll
    \/ MicDropStream
    \/ MicDropReceiver

MicSpec == MicSessionInit /\ [][MicNext]_vars

\* s is a beginning of t.
IsPrefix(s, t) == Len(s) <= Len(t) /\ s = SubSeq(t, 1, Len(s))




\* The application on any of its platforms, idle after AudioState::default().
PlatformInit ==
    /\ running = [s \in Sources |-> FALSE]
    /\ stop_signal = [s \in Sources |-> FALSE]
    /\ calls = [k \in CallKinds |-> 0]
    /\ thr = [k \in ThreadKinds |-> 0]
    /\ ev = NoEvent
    /\ device = [s \in Sources |-> 0]
    /\ platform \in Platforms
    /\ sess = NoSession
    /\ HandOffInit
    /\ StreamInit
    /\ ConvInit

PlatformNext ==
    \/ platform = "macos" /\ Next
    \/ platform \in StubPlatforms /\ StubNext

PlatformSpec == PlatformInit /\ [][PlatformNext]_vars

\* The sample conversions applied to samples of either integer format.
ConvNext == ConvertI16 \/ ConvertI32

ConvSpec == Init /\ [][ConvNext]_vars

\* A thread in its setup leaves it, one way or another.
ThreadSetup(s) ==
    \/ ThreadRuntimeFailed(s)
    \/ ThreadInputFailed(s)
    \/ ThreadStreamFailed(s)
    \/ ThreadStreamStarted(s)

\* Scheduling: a spawned thread or task keeps running from wherever it is,
\* and a command that has started keeps executing; nobody is obliged to
\* issue a new command.
Fairness ==
    \A s \in Sources :
        /\ WF_vars(ThreadSetup(s))
        /\ WF_vars(ThreadCheckStop(s))
        /\ WF_vars(ThreadSelect(s))
        /\ WF_vars(ThreadStoreStopped(s))
        /\ WF_vars(ThreadDropStream(s))
        /\ WF_vars(StartSetRunning(s))
        /\ WF_vars(StartResetStop(s))
        /\ WF_vars(StartSpawn(s))
        /\ WF_vars(StartReturn(s))
        /\ WF_vars(StopSignal(s))

FairSpec == Spec /\ Fairness

(***************************************************************************)
(* Vocabulary of the properties                                            *)
(***************************************************************************)
\* Accepted starts of s that have not spawned yet.
StartsPending(s) ==
    calls[<<"set", s>>] + calls[<<"reset", s>>] + calls[<<"spawn", s>>]

\* Threads of s that have not yet stored running = false.
ThreadsBeforeStore(s) ==
    thr[<<"setup", s>>] + thr[<<"loop", s>>] + thr[<<"select", s>>]
        + thr[<<"finalize", s>>]

\* Threads of s that own a live stream (an open device session).
StreamsOpen(s) ==
    thr[<<"loop", s>>] + thr[<<"select", s>>] + thr[<<"finalize", s>>]
        + thr[<<"drop", s>>]

\* This step is a start (stop) of s that returned at its checks.
StartReturnsAtChecks(s) == ev'.op = "start" /\ ev'.src = s /\ calls' = calls
StopReturnsAtCheck(s) == ev'.op = "stop" /\ ev'.src = s /\ calls' = calls

(***************************************************************************)
(* Properties                                                              *)
(***************************************************************************)
\* C1: a start of a source whose running flag is true returns that source's
\* "already running" error, writes neither flag and spawns nothing (the
\* threads are where they were); and no start gets past its check while the
\* flag is true.
C1_StartWhileRunningRejected ==
    [][\A s \in Sources :
        /\ (running[s] /\ StartReturnsAtChecks(s)) =>
              /\ ev'.ret = AlreadyRunningMsg(s)
              /\ UNCHANGED <<running, stop_signal, thr>>
        /\ (calls'[<<"set", s>>] > calls[<<"set", s>>]) => ~running[s]
      ]_vars

C1_Witness ==
    /\ ev = Return("start", "mic", AlreadyRunningMsg("mic"))
    /\ running["mic"]
    /\ thr[<<"select", "mic">>] = 1

\* C2: a stop of a source whose running flag is false returns that source's
\* "not running" error and leaves the four flags as they were; and no stop
\* gets past its check while the flag is false.
C2_StopWhileIdleRejected ==
    [][\A s \in Sources :
        /\ (~running[s] /\ StopReturnsAtCheck(s)) =>
              /\ ev'.ret = NotRunningMsg(s)
              /\ UNCHANGED <<running, stop_signal>>
        /\ (calls'[<<"signal", s>>] > calls[<<"signal", s>>]) => running[s]
      ]_vars

C2_Witness ==
    /\ ev = Return("stop", "speaker", NotRunningMsg("speaker"))
    /\ ~running["speaker"]
    /\ running["mic"]
    /\ stop_signal["mic"]

\* C3: for each source at most one start is accepted per session, so that
\* at most one capture thread of the source is ahead of its store of
\* running = false at any time.
C3_OneSessionPerSource ==
    \A s \in Sources : ThreadsBeforeStore(s) <= 1

\* C4: once a stop of a source has returned Ok while its running flag was
\* true, the flag eventually becomes false.
C4_StopTerminates ==
    \A s \in Sources :
        [](ev = Return("stop", s, "Ok") /\ running[s] => <>(~running[s]))

\* C5 as claimed: when a start of a source returns Ok, the source's running
\* flag is true.
C5_RunningWhenStartReturns ==
    \A s \in Sources : ev = Return("start", s, "Ok") => running[s]

\* C5 as amended: a start stores running = true before it goes on to reset
\* the stop signal and to spawn, and a thread is spawned only by such a
\* start; the flag goes from true to false only in the step of a capture
\* thread of the source that stores false on its way out, never in a step
\* of a command.
C5_SetBeforeSpawnClearedByThread ==
    [][\A s \in Sources :
        /\ calls'[<<"reset", s>>] > calls[<<"reset", s>>] => running'[s]
        /\ thr'[<<"setup", s>>] > thr[<<"setup", s>>] =>
              calls'[<<"spawn", s>>] < calls[<<"spawn", s>>]
        /\ (running[s] /\ ~running'[s]) =>
              /\ ThreadsBeforeStore(s)' < ThreadsBeforeStore(s)
              /\ calls' = calls
      ]_vars

\* A start of the speaker has returned Ok with its flag true and its thread
\* in the loop, while the microphone has been asked to stop.
C5_Witness ==
    /\ ev = Return("start", "speaker", "Ok")
    /\ running["speaker"]
    /\ thr[<<"loop", "speaker">>] = 1
    /\ ~stop_signal["speaker"]
    /\ running["mic"]
    /\ stop_signal["mic"]

\* C6: a start whose pre-flight acquisition failed returns the Display of
\* that error, and leaves the flags, the commands in progress and the threads
\* as they were.
C6_AcquireFailureLeavesIdle ==
    [][\A s \in Sources :
        (ev'.op = "start" /\ ev'.src = s /\ ev'.err # NoError) =>
            /\ ev'.err \in AcquireErrors(s)
            /\ ev'.ret = ErrorDisplay(ev'.err)
            /\ UNCHANGED <<running, stop_signal, calls, thr>>
      ]_vars

C6_Witness ==
    /\ ev.op = "start"
    /\ ev.src = "speaker"
    /\ ev.err = [variant |-> "DeviceError", detail |-> "Failed to get tap UID: err"]
    /\ ev.ret = "Device error: Failed to get tap UID: err"
    /\ ~running["speaker"]
    /\ StreamsOpen("speaker") = 0

C8_ReleasedBeforeIdle ==
    \A s \in Sources :
        (~running[s] /\ StartsPending(s) = 0 /\ ThreadsBeforeStore(s) = 0)
            => StreamsOpen(s) = 0

\* C8 as amended: a thread leaving its loop stores running = false while it
\* still owns its stream, and a stream is released only by a thread that has
\* already stored running = false.
C8_StoreThenRelease ==
    [][\A s \in Sources :
        /\ thr'[<<"finalize", s>>] < thr[<<"finalize", s>>] =>
              /\ ~running'[s]
              /\ StreamsOpen(s)' = StreamsOpen(s)
        /\ StreamsOpen(s)' < StreamsOpen(s) =>
              thr'[<<"drop", s>>] < thr[<<"drop", s>>]
      ]_vars

\* A new session's stream is open while the previous session's is not yet
\* released.
C8_Witness ==
    /\ thr[<<"drop", "mic">>] = 1
    /\ thr[<<"loop", "mic">>] = 1
    /\ running["mic"]

\* C9: whenever the consumer is parked on Pending and the ring buffer holds
\* a sample, its waker has been woken, or the callback in progress is about
\* to wake it.
WakeUnderWay ==
    \/ p_pc = "wake"
    \/ p_pc = "notify" /\ ~has_data /\ waker = "task"

C9_NoMissedWakeup ==
    (c_pc = "pending" /\ Len(rb) > 0) => (notified \/ WakeUnderWay)

\* C10: the callbacks begun since the last step of a poll have issued at
\* most one wake between them; and a callback decides to wake only when it
\* finds has_data false, and sets it true.
C10_WakeCoalescing ==
    /\ [](run_wakes <= 1)
    /\ [][(p_pc = "notify" /\ p_pc' = "wake") => (~has_data /\ has_data')]_vars

\* Three deliveries accepted since the consumer parked, one wake.
C10_Witness ==
    /\ c_pc = "pending"
    /\ run_wakes = 1
    /\ run_pushes = 3
    /\ p_pc = "idle"
    /\ has_data
    /\ waker = "none"

\* C11: the push of a callback delivering n samples into a buffer with r free
\* slots appends the first min(n, r) samples of the slice, in order, behind
\* what was buffered; it counts min(n, r) as pushed and n - min(n, r) as
\* dropped, which is 0 when n <= r and n - r otherwise.
C11_PushAccounting ==
    [][(p_pc = "push" /\ p_pc' # "push") =>
        LET n == cb.n
            r == buffer_capacity - Len(rb)
        IN /\ rb' = rb \o SubSeq(Slice(n), 1, Min(n, r))
           /\ cb'.pushed = Min(n, r)
           /\ cb'.dropped = IF n <= r THEN 0 ELSE n - r]_vars

\* A push that was accepted in part: some samples in, some dropped.
C11_Witness ==
    /\ p_pc = "notify"
    /\ cb.pushed > 0
    /\ cb.dropped > 0
    /\ cb.pushed + cb.dropped = cb.n
    /\ Len(rb) = buffer_capacity

\* C12: a poll that finds k >= 1 samples returns Ready with the oldest
\* min(k, SAMPLES_PER_CHUNK) samples in order, removes exactly those and
\* leaves the wake cell alone; a poll that finds the buffer empty goes on,
\* without touching the wake cell, to set has_data false, store the waker and
\* return Pending; no Ready chunk is empty.
C12_PollNext ==
    /\ [][(c_pc \in {"idle", "pending"} /\ p_pc' = p_pc /\ Len(rb) >= 1) =>
            LET k == Len(rb)
                m == Min(k, SamplesPerChunk)
            IN /\ polled' = [res |-> "Ready", chunk |-> SubSeq(rb, 1, m)]
               /\ rb' = SubSeq(rb, m + 1, k)
               /\ has_data' = has_data
               /\ waker' = waker]_vars
    /\ [][(c_pc \in {"idle", "pending"} /\ p_pc' = p_pc /\ Len(rb) = 0) =>
            /\ c_pc' = "register"
            /\ rb' = rb
            /\ has_data' = has_data
            /\ waker' = waker]_vars
    /\ [][(c_pc = "register" /\ p_pc' = p_pc) =>
            /\ ~has_data'
            /\ waker' = "task"
            /\ polled' = [res |-> "Pending", chunk |-> <<>>]
            /\ rb' = rb]_vars
    /\ [](polled.res = "Ready" => Len(polled.chunk) >= 1)

\* A poll found more than one chunk's worth and returned a full chunk.
C12_Witness ==
    /\ polled.res = "Ready"
    /\ Len(polled.chunk) = SamplesPerChunk
    /\ Len(rb) > 0
    /\ c_pc = "idle"

\* C13: every stop that returns Ok leaves the source's stop flag true and
\* the running flags as they were, however many stops went before it; and
\* once one stop of a source has returned Ok, the source's capture threads
\* eventually leave their loops.
C13_StopIdempotentSingleShot ==
    /\ [][\A s \in Sources :
            ev' = Return("stop", s, "Ok") =>
                (stop_signal'[s] /\ running' = running /\ thr' = thr)]_vars
    /\ \A s \in Sources :
        [](ev = Return("stop", s, "Ok") =>
              <>(thr[<<"loop", s>>] + thr[<<"select", s>>] = 0))

\* C14 as claimed: a source's running flag changes only in steps of capture
\* threads, and its stop flag changes only in steps of commands.
C14_RunningWrittenByThreadOnly ==
    [][\A s \in Sources :
        /\ (running'[s] # running[s]) => (thr' # thr /\ calls' = calls)
        /\ (stop_signal'[s] # stop_signal[s]) => (calls' # calls /\ thr' = thr)
      ]_vars

\* C14: a source's running flag becomes true only in the step of a start
\* command of that source at its store, and becomes false only in the step of
\* a capture thread of that source that has not yet stored; its stop flag
\* changes only in the step of a stop command at its signal (to true) or of a
\* start command at its reset (to false), never in a step of a thread.
C14_FlagWriterDiscipline ==
    [][\A s \in Sources :
        /\ (~running[s] /\ running'[s]) =>
              /\ calls'[<<"set", s>>] < calls[<<"set", s>>]
              /\ thr' = thr
        /\ (running[s] /\ ~running'[s]) =>
              /\ ThreadsBeforeStore(s)' < ThreadsBeforeStore(s)
              /\ calls' = calls
        /\ (~stop_signal[s] /\ stop_signal'[s]) =>
              /\ calls'[<<"signal", s>>] < calls[<<"signal", s>>]
              /\ thr' = thr
        /\ (stop_signal[s] /\ ~stop_signal'[s]) =>
              /\ calls'[<<"reset", s>>] < calls[<<"reset", s>>]
              /\ thr' = thr
      ]_vars

\* A thread has observed the stop flag and left its loop; the flag, written
\* by the stop command, is still true, and running, written by the start
\* command, is still true.
C14_Witness ==
    /\ thr[<<"finalize", "mic">>] = 1
    /\ stop_signal["mic"]
    /\ running["mic"]
    /\ CallsInFlight = 0

\* C15: a step in which a flag of one source changes is no step of an
\* operation on the other source: no command of the other source returns or
\* moves on in it, and no capture thread of the other source takes a step.
C15_SourceIndependence ==
    [][\A o \in Sources :
        (running'[o] # running[o] \/ stop_signal'[o] # stop_signal[o]) =>
            \A s \in Sources \ {o} :
                /\ ev'.src # s
                /\ \A pc \in CallPcs : calls'[<<pc, s>>] = calls[<<pc, s>>]
                /\ \A pc \in ThreadPcs : thr'[<<pc, s>>] = thr[<<pc, s>>]
      ]_vars

\* The microphone's session has been stopped and is winding down while the
\* speaker's runs on, untouched by the microphone's stop.
C15_Witness ==
    /\ ev = Return("stop", "mic", "Ok")
    /\ running["mic"] /\ stop_signal["mic"]
    /\ running["speaker"] /\ ~stop_signal["speaker"]
    /\ thr[<<"select", "speaker">>] = 1
    /\ thr[<<"loop", "mic">>] + thr[<<"select", "mic">>] = 1

\* C16: a source has as many started devices as its capture threads have
\* live streams; a device is started only in the step that opens a stream
\* and stopped only in the step that drops one.
C16_SingleTeardownPoint ==
    /\ [](\A s \in Sources : device[s] = StreamsOpen(s))
    /\ [][\A s \in Sources :
            /\ (device'[s] < device[s]) =>
                  /\ thr' = Dec(thr, <<"drop", s>>)
                  /\ device'[s] = device[s] - 1
            /\ (device'[s] > device[s]) =>
                  /\ thr' = Move(thr, <<"setup", s>>, <<"loop", s>>)
                  /\ device'[s] = device[s] + 1
      ]_vars

\* A stop has been accepted and the thread has left its loop and stored
\* running = false; its stream is not yet dropped and the device still runs.
C16_Witness ==
    /\ thr[<<"drop", "mic">>] = 1
    /\ device["mic"] = 1
    /\ stop_signal["mic"]
    /\ ~running["mic"]
    /\ CallsInFlight = 0

\* C17: from the moment an invocation of the callback in which the device
\* reported rate r has made its rate update, and until the next invocation,
\* sample_rate() returns r, whatever the rate was when the stream was opened.
C17_SampleRateFollowsCallback ==
    /\ [](cb.reported => sample_rate = cb.rate)
    /\ [][(p_pc = "idle" /\ p_pc' = "push" /\ cb'.reported) =>
            sample_rate' = cb'.rate]_vars

\* An invocation has returned in which the device reported a rate other than
\* the one the stream was opened with.
C17_Witness ==
    /\ p_pc = "idle"
    /\ cb.ret = "NO_ERR"
    /\ cb.reported
    /\ cb.rate # format_rate
    /\ sample_rate = cb.rate

\* C18: a callback at its push can always take the step, whatever room the
\* buffer has; the step keeps every sample already buffered and leaves the
\* running and stop flags, the threads and the device as they were; every
\* invocation that has ended returned NO_ERR; the session stays running; and
\* whenever samples are buffered the consumer's poll can take them.
C18_OverflowNeverBlocks ==
    /\ [](p_pc = "push" => ENABLED ProducerPush)
    /\ [][(p_pc = "push" /\ p_pc' # "push") =>
            /\ SubSeq(rb', 1, Len(rb)) = rb
            /\ cb'.ret \in {"running", "NO_ERR"}
            /\ (p_pc' = "idle" => cb'.ret = "NO_ERR")
            /\ UNCHANGED <<lifecycle_vars, conv>>]_vars
    /\ [](p_pc = "idle" => cb.ret \in {"none", "NO_ERR"})
    /\ [](running["speaker"] /\ thr[<<"select", "speaker">>] = 1)
    /\ []((Len(rb) > 0 /\ c_pc \in {"idle", "pending"}) => ENABLED ConsumerPop)

\* The buffer was full, an invocation dropped its whole slice and returned
\* NO_ERR, and the next poll returned a full chunk of the buffered samples;
\* the session is running.
C18_Witness ==
    /\ p_pc = "idle"
    /\ cb.n > 0
    /\ cb.dropped = cb.n
    /\ cb.ret = "NO_ERR"
    /\ polled.res = "Ready"
    /\ Len(polled.chunk) = SamplesPerChunk
    /\ Len(rb) = buffer_capacity - SamplesPerChunk
    /\ running["speaker"]

\* C19 as claimed: when a delivery does not fit, the buffer ends up holding
\* the whole of the new slice at its end, the oldest buffered samples having
\* made room for it.
C19_OldestDiscarded ==
    [][(p_pc = "push" /\ p_pc' # "push" /\ cb.n > buffer_capacity - Len(rb)) =>
        /\ Len(rb') >= cb.n
        /\ SubSeq(rb', Len(rb') - cb.n + 1, Len(rb')) = Slice(cb.n)]_vars

\* C19: when a delivery does not fit, every sample already buffered stays
\* where it was, the buffer is filled up with the first samples of the new
\* slice, and the rest of the new slice, its newest sample included, is
\* discarded.
C19_NewestDiscarded ==
    [][(p_pc = "push" /\ p_pc' # "push" /\ cb.n > buffer_capacity - Len(rb)) =>
        /\ SubSeq(rb', 1, Len(rb)) = rb
        /\ Len(rb') = buffer_capacity
        /\ \A i \in 1..Len(rb') : rb'[i] # delivered
        /\ cb'.dropped = cb.n - (buffer_capacity - Len(rb))
        /\ cb'.dropped > 0]_vars

\* An overflowing delivery has been pushed: the oldest sample ever delivered
\* is still at the head of the buffer, the newest is not in it.
C19_Witness ==
    /\ p_pc \in {"notify", "idle"}
    /\ cb.dropped > 0
    /\ Len(rb) = buffer_capacity
    /\ rb[1] = 1
    /\ rb[Len(rb)] < delivered

C21_IdenticalChannelsUnchanged ==
    conv.fmt = "mono" =>
        /\ Len(conv.out) = 2
        /\ conv.out[1] = conv.sample.data[1]
        /\ conv.out[2] = conv.sample.data[2 * conv.sample.channels]
        /\ (conv.sample.channels = 1 => conv.out = conv.sample.data)

C24_NoLostStop ==
    [][\A s \in Sources :
        (ev = Return("stop", s, "Ok") /\ running[s]) => stop_signal'[s]]_vars

\* C25: whenever a capture thread of a source is inside its capture loop,
\* holding a live stream, the running flag of that source is true.
C25_LoopImpliesRunning ==
    \A s \in Sources :
        thr[<<"loop", s>>] + thr[<<"select", s>>] > 0 => running[s]

\* C27: a stop signal left true by an earlier session never terminates a
\* later session. With no stop issued since, the signal of a source is false
\* from the moment a start is about to spawn the capture thread until that
\* thread has stored running = false; nothing sets the signal again; and a
\* thread that leaves its loop leaves it from the select (its stream ended),
\* never from the check of the signal.
C27_LeftoverStopNeverTerminates ==
    /\ [](\A s \in Sources :
            calls[<<"spawn", s>>] + ThreadsBeforeStore(s) > 0 => ~stop_signal[s])
    /\ [][\A s \in Sources :
            /\ stop_signal'[s] => stop_signal[s]
            /\ thr'[<<"finalize", s>>] > thr[<<"finalize", s>>]
                   => thr'[<<"select", s>>] < thr[<<"select", s>>]]_vars

\* A later microphone session is capturing with the signal reset, while the
\* speaker, idle, still carries the signal of its earlier session.
C27_Witness ==
    /\ thr[<<"select", "mic">>] > 0
    /\ ~stop_signal["mic"]
    /\ stop_signal["speaker"]
    /\ ~running["speaker"]
    /\ StartsPending("speaker") + ThreadsBeforeStore("speaker") = 0

\* C26: after a stop has stored the stop signal while the capture thread was
\* in its loop, the thread takes at most one further chunk from its stream.
C26_AtMostOneChunkAfterStop == sess.after_stop <= 1

\* C23 (as stated): with saving enabled and the writer created, when the
\* thread is back at the top of its loop the chunk of the iteration just
\* finished has been handed to the writer in full and in order; with saving
\* disabled nothing is handed over.
C23_ChunkHandedInFull ==
    sess.pc = "loop" =>
        /\ (sess.save /\ sess.writer) => sess.wrote = sess.chunk
        /\ ~sess.save => sess.wrote = <<>>

\* C23 (amended): with saving enabled and the writer created, the samples of
\* the chunk are handed to the writer in order before the thread polls again
\* or checks the stop signal, all of them unless a write failed, and then
\* those before the failed one; without a writer nothing is handed over.
C23_ChunkHandedUntilFailure ==
    sess.pc = "loop" =>
        /\ sess.writer =>
              /\ Len(sess.wrote) <= Len(sess.chunk)
              /\ sess.wrote = SubSeq(sess.chunk, 1, Len(sess.wrote))
              /\ ~sess.failed => sess.wrote = sess.chunk
              /\ sess.failed => Len(sess.wrote) < Len(sess.chunk)
        /\ sess.writer => sess.save
        /\ ~sess.writer => sess.wrote = <<>> /\ ~sess.failed

\* A chunk of two samples of which the first was written and the second
\* failed, the thread back at the top of its loop.
C23_Witness ==
    /\ sess.pc = "loop"
    /\ sess.writer
    /\ sess.failed
    /\ Len(sess.chunk) = 2
    /\ sess.wrote = <<1>>

\* C28: at every point the chunks poll_next has yielded so far, concatenated
\* in order, followed by the ring buffer's contents, are exactly the samples
\* push_slice has accepted so far, in order; a poll that returns Pending
\* changes neither, and a sample leaves the buffer only by being yielded.
C28_SampleConservation ==
    /\ [](hist.yielded \o rb = hist.accepted)
    /\ [][/\ (c_pc = "register" /\ c_pc' = "pending") => (hist' = hist /\ rb' = rb)
          /\ hist'.yielded = hist.yielded => SubSeq(rb', 1, Len(rb)) = rb]_vars

\* Samples were yielded, others are buffered, some were dropped before being
\* accepted, and the latest poll returned Pending.
C28_Witness ==
    /\ Len(hist.yielded) > 0
    /\ Len(rb) > 0
    /\ Len(hist.accepted) < delivered
    /\ c_pc = "pending"
    /\ p_pc = "idle"

\* The wake cell as a Pending poll leaves it: the waker stored, has_data
\* false.
WakerRegistered == waker = "task" /\ ~has_data

\* C29: a callback whose push accepts at least one sample while the wake
\* cell is as a Pending poll left it (waker stored, has_data false) finds the
\* cell still so at its critical section, whatever the consumer does in
\* between; it then sets has_data true, takes the waker out, and wakes it
\* once before it returns. A push that accepts nothing wakes nobody.
C29_NextPushWakes ==
    /\ [][(p_pc = "push" /\ p_pc' # "push") =>
            p_pc' = IF cb'.pushed > 0 THEN "notify" ELSE "idle"]_vars
    /\ [][(p_pc = "notify" /\ p_pc' = "notify" /\ WakerRegistered) => WakerRegistered']_vars
    /\ [][(p_pc = "notify" /\ p_pc' # "notify" /\ WakerRegistered) =>
            (p_pc' = "wake" /\ has_data' /\ waker' = "none")]_vars
    /\ [][(p_pc = "wake" /\ p_pc' # "wake") =>
            (p_pc' = "idle" /\ notified' /\ has_data' = has_data /\ waker' = waker)]_vars
    /\ [](run_wakes <= 1)

\* The first callback to push since the consumer was parked is about to wake
\* the waker it took from the cell.
C29_Witness ==
    /\ c_pc = "pending"
    /\ p_pc = "wake"
    /\ cb.pushed >= 1
    /\ run_pushes = 1
    /\ has_data
    /\ waker = "none"
    /\ ~notified

\* C30: the callback comes to wake only by taking out of the wake cell a
\* waker stored there, which leaves the cell empty, and each waker it takes
\* it wakes once; a waker enters the cell only when a poll stores it on its
\* way to returning Pending, and every such poll stores one, replacing any
\* waker still there.
C30_WakeOnlyStoredWakerOnce ==
    /\ [][(p_pc # "wake" /\ p_pc' = "wake") =>
            (p_pc = "notify" /\ waker = "task" /\ waker' = "none")]_vars
    /\ [][(~notified /\ notified') => (p_pc = "wake" /\ p_pc' = "idle")]_vars
    /\ [][(waker # "task" /\ waker' = "task") =>
            (c_pc = "register" /\ c_pc' = "pending" /\ polled'.res = "Pending")]_vars
    /\ [][(c_pc = "register" /\ c_pc' = "pending") => waker' = "task"]_vars
    /\ [][(waker = "task" /\ waker' = "none") => (p_pc = "notify" /\ p_pc' = "wake")]_vars

\* The waker a Pending poll stored has been taken and woken, the callback has
\* returned, and the consumer has not polled since.
C30_Witness ==
    /\ c_pc = "pending"
    /\ polled.res = "Pending"
    /\ notified
    /\ run_wakes = 1
    /\ run_pushes = 1
    /\ waker = "none"
    /\ p_pc = "idle"
    /\ cb.ret = "NO_ERR"

\* C33: a callback whose push accepts no sample (an empty delivery, or a
\* ring buffer with no free slot) leaves the ring buffer and the wake cell
\* (has_data and the stored waker) as they were, issues no wake and returns.
C33_ZeroAcceptedIsNoOp ==
    [][(p_pc = "push" /\ p_pc' # "push" /\ cb'.pushed = 0) =>
        /\ rb' = rb
        /\ has_data' = has_data
        /\ waker' = waker
        /\ notified' = notified
        /\ run_wakes' = run_wakes
        /\ hist' = hist
        /\ p_pc' = "idle"
        /\ cb'.ret = "NO_ERR"]_vars

\* A callback that delivered samples into a full buffer has returned with
\* nothing pushed, the consumer parked with its waker still in the cell.
C33_Witness ==
    /\ p_pc = "idle"
    /\ cb.n > 0
    /\ cb.pushed = 0
    /\ cb.ret = "NO_ERR"
    /\ Len(rb) = buffer_capacity
    /\ waker = "task"
    /\ ~has_data
    /\ ~notified

\* C34: the ring buffer's capacity is SAMPLES_PER_CHUNK *
\* BUFFER_CAPACITY_MULTIPLIER = 1024 * 64 = 65536 samples, fixed for the
\* session, and its occupancy is between 0 and its capacity in every state.
C34_OccupancyWithinCapacity ==
    /\ SAMPLES_PER_CHUNK * BUFFER_CAPACITY_MULTIPLIER = 65536
    /\ buffer_capacity = SamplesPerChunk * CapacityMultiplier
    /\ 0 <= Len(rb)
    /\ Len(rb) <= buffer_capacity

\* The buffer is full and the callback in progress has dropped samples.
C34_Witness ==
    /\ Len(rb) = buffer_capacity
    /\ cb.dropped > 0
    /\ p_pc = "notify"

\* C35: a sink failure never ends the capture. A thread whose writer could
\* not be created enters its loop without one; a failed write sends the
\* thread back to the top of its loop with its writer kept; neither step
\* changes the running flag, which the thread stores only when its setup
\* failed or when it is past its loop; and the thread leaves its loop only
\* at the check that reads the stop signal true or at a select that yields
\* no chunk (the end of the stream).
C35_SinkFailureKeepsCapturing ==
    [][sess' # sess =>
        /\ (sess.pc = "setup" /\ sess'.pc # "setup" /\ sess'.save /\ ~sess'.writer) =>
              (sess'.pc = "loop" /\ running' = running)
        /\ (~sess.failed /\ sess'.failed) =>
              /\ sess.pc = "select"
              /\ sess'.pc = "loop"
              /\ sess'.writer = sess.writer
              /\ running' = running
        /\ running' # running => sess.pc \in {"setup", "finalize"}
        /\ (InLoop /\ sess'.pc \notin {"loop", "select"}) =>
              /\ sess'.pc = "finalize"
              /\ \/ sess.pc = "loop" /\ stop_signal["mic"]
                 \/ sess.pc = "select" /\ sess'.chunk = <<>> /\ ~sess'.failed]_vars

\* The first write of a chunk failed and the thread is back at the top of
\* its loop, the source running and no stop requested.
C35_Witness ==
    /\ sess.pc = "loop"
    /\ sess.writer
    /\ sess.failed
    /\ sess.wrote = <<>>
    /\ running["mic"]
    /\ ~stop_signal["mic"]

\* C37: the mono conversion of c * k samples in frames of c >= 2 channels has
\* k samples, the i-th being the arithmetic mean of the c samples of frame i
\* (the f32 nearest to it); a frame of two opposite values gives 0.
C37_FrameMeans ==
    (conv.fmt = "mono" /\ conv.sample.channels >= 2) =>
        LET c == conv.sample.channels
            data == conv.sample.data
            k == Len(data) \div c
        IN /\ Len(conv.out) = k
           /\ \A i \in 1..k :
                conv.out[i] = MeanOf(SubSeq(data, (i - 1) * c + 1, i * c))
           /\ (c = 2 /\ data[1] + data[2] = 0) => conv.out[1] = 0

\* C31: the callback and the consumer never deadlock.  The mutex of the wake
\* cell is the only lock: it is held exactly inside the two critical
\* sections, so not while samples are pushed or popped and not while the
\* callback calls wake(); the two sides never wait for each other; a side
\* that waits does so for a holder that can go on; and a holder makes one
\* step of updates to the flag and the waker and then releases the mutex.
C31_NoDeadlock ==
    /\ [](/\ (lock = "producer") <=> ProducerHolds
          /\ (lock = "consumer") <=> ConsumerHolds
          /\ p_pc \in {"push", "wake"} => lock # "producer"
          /\ ~(ProducerWaits /\ ConsumerWaits)
          /\ ProducerWaits => ConsumerHolds
          /\ ConsumerWaits => ProducerHolds
          /\ ProducerHolds => ENABLED (ProducerTakeWaker \/ ProducerUnlock)
          /\ ConsumerHolds => ENABLED (ConsumerStoreWaker \/ ConsumerUnlock))
    /\ [][/\ Len(rb') > Len(rb) => (lock # "producer" /\ lock' # "producer")
          /\ Len(rb') < Len(rb) => (lock # "consumer" /\ lock' # "consumer")
          /\ (notified' /\ ~notified) => (lock # "producer" /\ lock' # "producer")
          /\ (ProducerHolds /\ p_pc' # p_pc) =>
                \/ p_pc = "locked" /\ ProducerHolds' /\ rb' = rb
                \/ p_pc # "locked" /\ lock' = "free"
          /\ (ConsumerHolds /\ c_pc' # c_pc) =>
                \/ c_pc = "locked" /\ ConsumerHolds' /\ rb' = rb
                \/ c_pc # "locked" /\ lock' = "free"]_vars

\* The consumer is inside its critical section while the callback, which has
\* pushed samples, waits for the mutex.
C31_Witness ==
    /\ ProducerWaits
    /\ lock = "consumer"
    /\ c_pc = "unlock"
    /\ cb.pushed > 0

\* C32: the parts of a SpeakerStream are released in the order consumer,
\* started device, callback context, tap; releasing the device stops the IO
\* proc, so that no invocation begins afterwards and none is in progress, or
\* makes a step, once the context or the tap has been released.
C32_CallbackStoppedBeforeContextFreed ==
    /\ [](/\ \A i \in 1..Len(released) :
                i <= 4 => released[i] = <<"consumer", "_device", "_ctx", "_tap">>[i]
          /\ (Released("_ctx") \/ Released("_tap")) => Released("_device")
          /\ p_pc # "idle" => (~Released("_device") /\ ~Released("_ctx") /\ ~Released("_tap")))
    /\ [][/\ (p_pc = "idle" /\ p_pc' # "idle") => ~Released("_device")
          /\ (p_pc' # p_pc \/ cb' # cb) =>
                (~Released("_ctx") /\ ~Released("_tap") /\ released' = released)]_vars

\* A stream whose four parts have been released after its callback had
\* pushed samples and woken the task, with samples left unread.
C32_Witness ==
    /\ Released("_tap")
    /\ Len(rb) > 0
    /\ cb.pushed > 0
    /\ notified

\* C36, as stated: the chunks the stream yields are chunks the callback sent,
\* whole, in send order and each once; the stream yields end-of-stream only
\* when the sender is gone; and every chunk sent while the stream was alive
\* has been yielded by the time the stream is gone.
C36_EverySentChunkYielded ==
    /\ IsPrefix(mic.yielded, mic.sent)
    /\ mic.polled = "None" => ~mic.tx
    /\ (mic.made > 0 /\ ~mic.rx) => mic.yielded = mic.sent

\* C36, amended: while the stream is alive the chunks sent are, in order, the
\* chunks yielded followed by the chunks waiting in the channel; a poll
\* yields the oldest waiting chunk, whole, and nothing else removes or
\* changes a chunk while the stream is alive; the chunks still waiting when
\* the stream is dropped are discarded with it; the stream yields
\* end-of-stream only when the sender is gone.
C36_SentChunksYieldedInOrder ==
    /\ [](/\ IsPrefix(mic.yielded, mic.sent)
          /\ mic.rx => mic.yielded \o mic.queue = mic.sent
          /\ mic.polled = "None" => ~mic.tx)
    /\ [][/\ mic'.yielded # mic.yielded =>
                /\ mic.queue # <<>>
                /\ mic'.yielded = Append(mic.yielded, Head(mic.queue))
                /\ mic'.queue = Tail(mic.queue)
                /\ mic'.polled = "Ready"
          /\ (mic.rx /\ mic'.rx /\ mic'.yielded = mic.yielded) =>
                IsPrefix(mic.queue, mic'.queue)
          /\ (mic.rx /\ ~mic'.rx) => (~mic.tx /\ mic'.yielded = mic.yielded)]_vars

\* The stream has yielded the first chunk while two more wait in the channel.
C36_Witness ==
    /\ mic.rx
    /\ Len(mic.yielded) = 1
    /\ Len(mic.queue) = 2
    /\ mic.polled = "Ready"

====
